---- MODULE Spec2Model ----
(***************************************************************************)
(* BookAI query resolution pipeline: intent classification, the retrieval  *)
(* waterfall (local title lookup, just-in-time external fetch, vector      *)
(* search, keyword fallback, LLM knowledge) and narration, for two chat    *)
(* turns running concurrently over one Catalog Store and Semantic Index.   *)
(***************************************************************************)
EXTENDS Integers, Sequences, FiniteSets, TLC

(***************************************************************************)
(* Bounds                                                                  *)
(***************************************************************************)
\* total number of chat turns started in one behaviour
MaxTurns == 2

\* K of the top-K nearest-neighbour query (tunable)
TopK == 2

\* longest reply of the language-generation collaborator to the narrator
MaxReply == 2

\* the two request slots that may be in flight at the same time
Turns == {"t1", "t2"}

(***************************************************************************)
(* Text: a sequence of characters; lower-casing and substring search are   *)
(* computed, as str.lower() and the Python `in` operator compute them.     *)
(***************************************************************************)
LowerChar(c) ==
    CASE c = "A" -> "a"
      [] c = "B" -> "b"
      [] c = "Z" -> "z"
      [] OTHER -> c

Lower(s) == [i \in 1..Len(s) |-> LowerChar(s[i])]

\* needle in hay
Contains(needle, hay) ==
    \E i \in 0..(Len(hay) - Len(needle)) :
        SubSeq(hay, i + 1, i + Len(needle)) = needle

\* TitleMatches that compares the texts as typed, letter case included
TitleMatches_CaseSensitive(specific_book, title) == Contains(specific_book, title)

\* specific_book.lower() in b.title.lower()
TitleMatches(specific_book, title) == Contains(Lower(specific_book), Lower(title))

RECURSIVE SelectIn(_, _, _)
\* the elements of seq, in order, whose position satisfies keep
SelectIn(seq, keep, i) ==
    IF i > Len(seq) THEN <<>>
    ELSE (IF keep[i] THEN <<seq[i]>> ELSE <<>>) \o SelectIn(seq, keep, i + 1)

(***************************************************************************)
(* Books                                                                   *)
(***************************************************************************)
\* rows of the books table loaded by bulk ingestion (is_dynamic = 0)
SeedCatalog ==
    << [id |-> 1, title |-> <<"A", "b">>, author |-> <<"x">>, is_dynamic |-> FALSE],
       [id |-> 2, title |-> <<"b", "a">>, author |-> <<"y">>, is_dynamic |-> FALSE] >>

\* what the third-party catalogs hold, in provider preference order
ExternalCatalog ==
    << [title |-> <<"B", "b">>, author |-> <<"u">>],
       [title |-> <<"b", "b", "a">>, author |-> <<"v">>] >>

\* non-empty chat messages, and the empty one
Messages == { <<"b", "b">>, <<"Z">> }
EmptyMessage == <<>>

\* persona ids a request may carry
PersonaIds == {"sarcastic", "bogus"}

\* outcomes of one outbound call to a collaborator
CallOutcomes == {"ok", "unavailable", "timeout"}

NoText == <<>>

(***************************************************************************)
(* Persona Registry                                                        *)
(***************************************************************************)
PERSONAS == {"friendly", "sarcastic"}

\* unknown persona id falls back to the default persona
PersonaOf(persona_id) == IF persona_id \in PERSONAS THEN persona_id ELSE "friendly"

(***************************************************************************)
(* Layer 2: intent classification                                          *)
(***************************************************************************)
\* the structured replies the language-generation collaborator may give to
\* the classification prompt for a message, as they arrive on the wire
ClassifierReplies(message) ==
    { [kind |-> k, needs_book_search |-> "", specific_book_requested |-> NoText,
       optimized_query |-> NoText] : k \in {"unavailable", "timeout"} }
    \cup
    { [kind |-> "ok", needs_book_search |-> "true", specific_book_requested |-> sb,
       optimized_query |-> oq] :
         sb \in {NoText, message, <<"B">>}, oq \in {message, <<"a">>} }
    \cup
    { [kind |-> "ok", needs_book_search |-> "true",
       specific_book_requested |-> <<"Z", "z">>, optimized_query |-> message],
      [kind |-> "ok", needs_book_search |-> "false", specific_book_requested |-> NoText,
       optimized_query |-> message],
      [kind |-> "ok", needs_book_search |-> "maybe", specific_book_requested |-> message,
       optimized_query |-> message],
      [kind |-> "ok", needs_book_search |-> "true", specific_book_requested |-> message,
       optimized_query |-> NoText] }

\* the reply has the fixed shape the classifier asked for
ValidStructure(reply) ==
    /\ reply.needs_book_search \in {"true", "false"}
    /\ reply.optimized_query # NoText

\* the reply was received and is well formed
ClassifierUsable(reply) == reply.kind = "ok" /\ ValidStructure(reply)

\* DefaultIntent that treats an unclassified message as small talk
DefaultIntent_NoSearch(message) ==
    [needs_book_search |-> FALSE, specific_book_requested |-> NoText,
     optimized_query |-> message]

\* "we assume it's a search and use the raw message"
DefaultIntent(message) ==
    [needs_book_search |-> TRUE, specific_book_requested |-> NoText,
     optimized_query |-> message]

analyze_query(message, reply) ==
    IF ClassifierUsable(reply)
    THEN [needs_book_search |-> (reply.needs_book_search = "true"),
          specific_book_requested |-> reply.specific_book_requested,
          optimized_query |-> reply.optimized_query]
    ELSE DefaultIntent(message)

(***************************************************************************)
(* Catalog Store                                                           *)
(***************************************************************************)
\* local_matches: the rows whose title contains the requested title, in
\* store order
find_by_title_fuzzy(books, specific_book) ==
    SelectIn(books,
             [i \in 1..Len(books) |-> TitleMatches(specific_book, books[i].title)], 1)

\* keyword LIKE query over title and author, in store order
find_by_keywords(books, query) ==
    SelectIn(books,
             [i \in 1..Len(books) |->
                 \/ Contains(Lower(query), Lower(books[i].title))
                 \/ Contains(Lower(query), Lower(books[i].author))], 1)

\* duplicate detection by normalized title + author
SameBook(b, title, author) ==
    Lower(b.title) = Lower(title) /\ Lower(b.author) = Lower(author)

\* Duplicates with the duplicate-detection check left out
Duplicates_Unchecked(books, found) == <<>>

Duplicates(books, found) ==
    SelectIn(books, [i \in 1..Len(books) |-> SameBook(books[i], found.title, found.author)], 1)

\* the stored row for a book found externally: the row already there, or a
\* new row with a fresh id and is_dynamic set
StoredRow(books, found) ==
    IF Duplicates(books, found) # <<>>
    THEN Duplicates(books, found)[1]
    ELSE [id |-> Len(books) + 1, title |-> found.title, author |-> found.author,
          is_dynamic |-> TRUE]

\* insert that never writes the row
insert_NotSaved(books, found) == books

\* insert(Book): no second row for a book that is already stored
insert(books, found) ==
    IF Duplicates(books, found) # <<>> THEN books
    ELSE Append(books, StoredRow(books, found))

(***************************************************************************)
(* External Metadata Source                                                *)
(***************************************************************************)
RECURSIVE Take(_, _)
Take(seq, n) == IF n = 0 \/ seq = <<>> THEN <<>> ELSE <<Head(seq)>> \o Take(Tail(seq), n - 1)

\* search(title, max_results): the first max_results external books whose
\* title matches; the empty sequence is "not found"
search(query, max_results) ==
    Take(SelectIn(ExternalCatalog,
                  [i \in 1..Len(ExternalCatalog) |->
                      TitleMatches(query, ExternalCatalog[i].title)], 1),
         max_results)

(***************************************************************************)
(* Embedding Provider and Semantic Index                                   *)
(***************************************************************************)
CharCode(c) ==
    CASE c = "a" -> 0
      [] c = "b" -> 1
      [] OTHER -> 5

RECURSIVE SumCodes(_)
SumCodes(s) == IF s = <<>> THEN 0 ELSE CharCode(Head(s)) + SumCodes(Tail(s))

\* embed_text: text -> vector (one coordinate); equal texts, equal vectors
embed_text(text) == SumCodes(Lower(text))

\* best possible similarity score, and the minimum similarity floor
MaxSimilarity == 3
MinSimilarity == 2

Distance(u, v) == IF u >= v THEN u - v ELSE v - u

\* closer vectors, higher score
Similarity(u, v) == MaxSimilarity - Distance(u, v)

\* the index built at process start from the Catalog Store
BuildIndex(books) ==
    [i \in 1..Len(books) |-> [book_id |-> books[i].id, vector |-> embed_text(books[i].title)]]

\* RankOf that puts the entry inserted last first among equal scores
RankOf_LatestFirst(idx, vector, i) ==
    Cardinality({ j \in 1..Len(idx) :
        \/ Similarity(idx[j].vector, vector) > Similarity(idx[i].vector, vector)
        \/ /\ Similarity(idx[j].vector, vector) = Similarity(idx[i].vector, vector)
           /\ j > i })

\* number of entries ranked before entry i: higher score, or equal score and
\* inserted earlier
RankOf(idx, vector, i) ==
    Cardinality({ j \in 1..Len(idx) :
        \/ Similarity(idx[j].vector, vector) > Similarity(idx[i].vector, vector)
        \/ /\ Similarity(idx[j].vector, vector) = Similarity(idx[i].vector, vector)
           /\ j < i })

\* query(vector, k): the k nearest entries with their scores, best first
IndexQuery(idx, vector, k) ==
    LET n == IF Len(idx) < k THEN Len(idx) ELSE k
        at(r) == CHOOSE i \in 1..Len(idx) : RankOf(idx, vector, i) = r - 1
    IN  [r \in 1..n |-> [book_id |-> idx[at(r)].book_id,
                         score |-> Similarity(idx[at(r)].vector, vector)]]

\* the hits at or above the similarity floor
AboveFloor(hits) ==
    SelectIn(hits, [i \in 1..Len(hits) |-> hits[i].score >= MinSimilarity], 1)

\* the stored row with a given id
BookById(books, id) == books[CHOOSE i \in 1..Len(books) : books[i].id = id]

(***************************************************************************)
(* Layer 3: the waterfall                                                  *)
(***************************************************************************)
\* candidates of one tier: the books, each tagged with score and tier
Tagged(books, tier) ==
    [i \in 1..Len(books) |-> [book |-> books[i], score |-> 0, tier |-> tier]]

\* tier 1: local fuzzy match on the requested title
Tier1Candidates(books, specific_book) ==
    Tagged(find_by_title_fuzzy(books, specific_book), 1)

\* Tier3Candidates that tops the vector hits up with keyword matches
Tier3Candidates_Merged(books, idx, query, embed_outcome) ==
    IF embed_outcome # "ok" THEN <<>>
    ELSE LET hits == AboveFloor(IndexQuery(idx, embed_text(query), TopK))
         IN  [i \in 1..Len(hits) |->
                 [book |-> BookById(books, hits[i].book_id),
                  score |-> hits[i].score, tier |-> 3]]
             \o Tagged(find_by_keywords(books, query), 4)

\* tier 3: vector search; a failed embedding gives no candidates
Tier3Candidates(books, idx, query, embed_outcome) ==
    IF embed_outcome # "ok" THEN <<>>
    ELSE LET hits == AboveFloor(IndexQuery(idx, embed_text(query), TopK))
         IN  [i \in 1..Len(hits) |->
                 [book |-> BookById(books, hits[i].book_id),
                  score |-> hits[i].score, tier |-> 3]]

\* tier 4: SQL keyword fallback
Tier4Candidates(books, query) == Tagged(find_by_keywords(books, query), 4)

\* NotFoundNotice that records the normalised form of the requested title
NotFoundNotice_Normalised(intent) == Lower(intent.specific_book_requested)

\* the book-not-found notice of tier 2: the requested title as it was asked
NotFoundNotice(intent) == intent.specific_book_requested

\* SearchPhrase that flavours the search text with the persona of the turn
SearchPhrase_Toned(tn) ==
    IF PersonaOf(tn.persona) = "friendly" THEN tn.intent.optimized_query
    ELSE tn.intent.optimized_query \o <<"b">>

\* the text tiers 3 and 4 search for: the optimized query of the intent
SearchPhrase(tn) == tn.intent.optimized_query

\* EntryStage that runs the title lookup for every search
EntryStage_AlwaysTier1(intent) ==
    IF ~intent.needs_book_search THEN "converse" ELSE "tier1"

\* where the waterfall starts: tier 1 only when a specific book was requested
EntryStage(intent) ==
    IF ~intent.needs_book_search THEN "converse"
    ELSE IF intent.specific_book_requested # NoText THEN "tier1"
    ELSE "tier3"

\* AfterTier with a waterfall that does not stop at a vector-search hit
AfterTier_NoStop(tier, n) ==
    IF n > 0 /\ tier # 3 THEN "explain"
    ELSE CASE tier = 1 -> "tier2"
           [] tier = 2 -> "tier3"
           [] tier = 3 -> "tier4"
           [] OTHER -> IF n > 0 THEN "explain" ELSE "knowledge"

\* AfterTier that hands over to explanation after the vector search whether
\* or not it found anything
AfterTier_EarlyExplain(tier, n) ==
    IF n > 0 \/ tier = 3 THEN "explain"
    ELSE CASE tier = 1 -> "tier2"
           [] tier = 2 -> "tier3"
           [] OTHER -> "knowledge"

\* after a tier that yielded n candidates: stop at the first non-empty tier,
\* otherwise go on to the next tier
AfterTier(tier, n) ==
    IF n > 0 THEN "explain"
    ELSE CASE tier = 1 -> "tier2"
           [] tier = 2 -> "tier3"
           [] tier = 3 -> "tier4"
           [] OTHER -> "knowledge"

\* OnCallFailure with the classification call left unwrapped
OnCallFailure_ClassifierRaises(stage, call_outcome) ==
    IF call_outcome = "ok" THEN "none"
    ELSE IF stage = "classifier" THEN "raise" ELSE "fallback"

\* OnCallFailure with the embedding call left unwrapped
OnCallFailure_EmbeddingRaises(stage, call_outcome) ==
    IF call_outcome = "ok" THEN "none"
    ELSE IF stage = "embedding" THEN "raise" ELSE "fallback"

\* OnCallFailure that lets a call that timed out end the turn
OnCallFailure_TimeoutRaises(stage, call_outcome) ==
    IF call_outcome = "ok" THEN "none"
    ELSE IF call_outcome = "timeout" THEN "raise" ELSE "fallback"

\* what a stage does with the outcome of its outbound call: every call is
\* wrapped, a failed or timed-out call takes the stage's fallback
OnCallFailure(stage, call_outcome) ==
    IF call_outcome = "ok" THEN "none" ELSE "fallback"

(***************************************************************************)
(* Layer 4: narration                                                      *)
(***************************************************************************)
\* an id no stored book has
FakeId == 99

RECURSIVE SeqsUpTo(_, _)
\* all sequences over S of length at most n
SeqsUpTo(S, n) ==
    IF n = 0 THEN { <<>> }
    ELSE LET shorter == SeqsUpTo(S, n - 1)
         IN  shorter \cup { Append(q, x) : q \in shorter, x \in S }

CandidateIds(candidates) == { candidates[i].book.id : i \in 1..Len(candidates) }

\* replies of the language-generation collaborator to the explanation
\* prompt: it may fail, or explain any books in any order, invented ones
\* included
NarratorReplies(candidates) ==
    { [kind |-> k, book_ids |-> <<>>] : k \in {"unavailable", "timeout"} }
    \cup
    { [kind |-> "ok", book_ids |-> ids] :
        ids \in SeqsUpTo(CandidateIds(candidates) \cup {FakeId}, MaxReply) }

\* Reconcile that returns whatever the collaborator listed
Reconcile_Trusting(candidates, book_ids) ==
    [j \in 1..Len(book_ids) |-> [book_id |-> book_ids[j], explanation |-> "generated"]]

\* one explained entry per candidate, in candidate order; the explanation is
\* the generated one when the reply has one for that id, else built from
\* stored metadata
Reconcile(candidates, book_ids) ==
    [i \in 1..Len(candidates) |->
        [book_id |-> candidates[i].book.id,
         explanation |->
            IF \E j \in 1..Len(book_ids) : book_ids[j] = candidates[i].book.id
            THEN "generated" ELSE "metadata"]]

\* rerank that has no books to show when the generation call fails
rerank_NoFallback(candidates, persona_id, reply) ==
    IF reply.kind = "ok"
    THEN [message |-> <<"narrated", PersonaOf(persona_id)>>,
          recommendations |-> Reconcile(candidates, reply.book_ids)]
    ELSE [message |-> <<"Here's what I found:">>, recommendations |-> <<>>]

\* rerank(): preamble and explained books
rerank(candidates, persona_id, reply) ==
    IF reply.kind = "ok"
    THEN [message |-> <<"narrated", PersonaOf(persona_id)>>,
          recommendations |-> Reconcile(candidates, reply.book_ids)]
    ELSE [message |-> <<"Here's what I found:">>,
          recommendations |-> Reconcile(candidates, <<>>)]

\* generate_from_knowledge with nothing to say when the call fails
generate_from_knowledge_Empty(message, persona_id, call_outcome) ==
    IF call_outcome = "ok"
    THEN <<"knowledge", PersonaOf(persona_id), "unverified">>
    ELSE <<>>

\* generate_from_knowledge(): the reply when no tier found a book
generate_from_knowledge(message, persona_id, call_outcome) ==
    IF call_outcome = "ok"
    THEN <<"knowledge", PersonaOf(persona_id), "unverified">>
    ELSE <<"knowledge", "unverified">>

\* the reply to a greeting or small talk
converse(message, persona_id, call_outcome) ==
    IF call_outcome = "ok" THEN <<"smalltalk", PersonaOf(persona_id)>>
    ELSE <<"smalltalk">>

(***************************************************************************)
(* State                                                                   *)
(***************************************************************************)
VARIABLES
    catalog,    \* Catalog Store: the rows of the books table, in insertion order
    index,      \* Semantic Index: (book id, vector) entries, in insertion order
    turn,       \* per request slot: the state of the turn being processed
    started,    \* number of turns started so far
    widget,     \* ChatWidget: its React state and its requests in flight
    context,    \* UserProvider: the value of UserContext
    localStorage, \* the browser's localStorage items read and written by the app
    modal,      \* BookModal: its props, its React state, its requests in flight
    searchBox,  \* app.js search box: input, dropdown, timer, requests in flight
    readingList \* ReadingList page: its React state, its requests in flight

\* the state of the pages outside the chat panel
browser == <<context, localStorage, modal, searchBox, readingList>>

vars == <<catalog, index, turn, started, widget, browser>>

NoResult ==
    [message |-> <<>>, recommendations |-> <<>>, query_understood |-> FALSE,
     book_not_found |-> NoText, error_message |-> <<>>]

IdleTurn ==
    [pc |-> "idle", message |-> NoText, persona |-> "friendly",
     intent |-> DefaultIntent(NoText), candidates |-> <<>>, trace |-> <<>>,
     book_not_found |-> NoText, degraded |-> <<>>, found_books |-> <<>>,
     external_calls |-> 0, embed_failed |-> FALSE, narrator_failed |-> FALSE,
     classifier_reply |-> [kind |-> "none", needs_book_search |-> "",
                           specific_book_requested |-> NoText,
                           optimized_query |-> NoText],
     outcome |-> "none", result |-> NoResult]

\* useState(...) of ChatWidget: the greeting, an empty input box, not typing
InitialWidget ==
    [app |-> "react",
     messages |-> << [type |-> "bot", content |-> <<"Hey there!">>] >>,
     input |-> NoText, isTyping |-> FALSE, requests |-> <<>>, sent |-> 0]

\* no user is logged in
NoUser == [id |-> "", personality |-> "", theme |-> ""]

\* useState(...) of UserProvider over an empty localStorage, before the
\* mount effect has run
InitialContext ==
    [user |-> NoUser, personality |-> "friendly", theme |-> "dark",
     mounted |-> FALSE]

\* a localStorage without items ("" and the empty text stand for no item)
EmptyStorage == [user |-> NoText, personality |-> "", theme |-> ""]

\* no book has been handed to BookModal
NoBook == [id |-> "", description |-> NoText]

\* BookModal before any book was opened
ClosedModal ==
    [book |-> NoBook, isOpen |-> FALSE, description |-> NoText,
     isGenerating |-> FALSE, pending |-> <<>>, fetched |-> 0]

\* the search box of app.js when the page has loaded
EmptySearch ==
    [value |-> NoText, hidden |-> TRUE,
     results |-> [query |-> NoText, items |-> <<>>],
     debounceTimer |-> NoText, pending |-> <<>>, typed |-> 0]

\* useState(...) of ReadingList before its first effect, with the reading
\* list the server holds for the user
EmptyList ==
    [books |-> <<>>, loading |-> TRUE, rendered |-> FALSE, user |-> NoUser,
     pending |-> <<>>, server |-> <<"b1", "b2", "b3">>, clicks |-> 0,
     loads |-> 0]

\* the pages outside the chat panel before anything happened in them
BrowserIdle ==
    /\ context = InitialContext
    /\ localStorage = EmptyStorage
    /\ modal = ClosedModal
    /\ searchBox = EmptySearch
    /\ readingList = EmptyList

Init ==
    /\ catalog = SeedCatalog
    /\ index = BuildIndex(SeedCatalog)
    /\ turn = [t \in Turns |-> IdleTurn]
    /\ started = 0
    /\ widget = InitialWidget
    /\ BrowserIdle

\* Response that leaves the soft warning out
Response_NoWarning(tn, message, recommendations, degraded) ==
    [message |-> message, recommendations |-> recommendations,
     query_understood |-> TRUE, book_not_found |-> tn.book_not_found,
     error_message |-> <<>>]

\* the ChatResponse returned at the end of the pipeline
Response(tn, message, recommendations, degraded) ==
    [message |-> message, recommendations |-> recommendations,
     query_understood |-> TRUE, book_not_found |-> tn.book_not_found,
     error_message |-> degraded]

\* the turn ends by raising instead of returning
Raised(tn, error) == [tn EXCEPT !.pc = "done", !.outcome = error]

Degrade(tn, failure, note) ==
    IF failure = "none" THEN tn.degraded ELSE Append(tn.degraded, note)

Traced(tn, tier, n) == Append(tn.trace, [tier |-> tier, n |-> n])

(***************************************************************************)
(* handle_turn(message, user_id, persona_id, session_id), one action per   *)
(* stretch of code between two awaits                                      *)
(***************************************************************************)
\* the request arrives; an empty message is rejected before any stage runs
Receive(t, message, persona_id) ==
    /\ turn[t].pc \in {"idle", "done"}
    /\ started < MaxTurns
    /\ started' = started + 1
    /\ turn' = [turn EXCEPT ![t] =
          IF message = EmptyMessage
          THEN [IdleTurn EXCEPT !.pc = "done", !.persona = persona_id,
                                !.outcome = "InvalidInput"]
          ELSE [IdleTurn EXCEPT !.pc = "classify", !.message = message,
                                !.persona = persona_id]]
    /\ UNCHANGED <<catalog, index, widget, browser>>

\* the classification call returns (or fails); the waterfall entry is chosen
Classify(t) ==
    /\ turn[t].pc = "classify"
    /\ \E reply \in ClassifierReplies(turn[t].message) :
         LET tn == turn[t]
             failure == OnCallFailure("classifier",
                            IF ClassifierUsable(reply) THEN "ok" ELSE "unavailable")
             intent == analyze_query(tn.message, reply)
             replied == [tn EXCEPT !.classifier_reply = reply]
         IN  turn' = [turn EXCEPT ![t] =
                IF failure = "raise" THEN Raised(replied, "UpstreamUnavailable")
                ELSE [replied EXCEPT !.intent = intent,
                                !.degraded = Degrade(tn, failure, "classifier_default"),
                                !.pc = EntryStage(intent)]]
    /\ UNCHANGED <<catalog, index, started, widget, browser>>

\* tier 1: specific-book local lookup
Tier1(t) ==
    /\ turn[t].pc = "tier1"
    /\ LET tn == turn[t]
           own == Tier1Candidates(catalog, tn.intent.specific_book_requested)
       IN  turn' = [turn EXCEPT ![t] =
              [tn EXCEPT !.candidates = own,
                         !.trace = Traced(tn, 1, Len(own)),
                         !.pc = AfterTier(1, Len(own))]]
    /\ UNCHANGED <<catalog, index, started, widget, browser>>

\* tier 2, first half: the external search returns
Tier2Fetch(t) ==
    /\ turn[t].pc = "tier2"
    /\ \E call_outcome \in CallOutcomes :
         LET tn == turn[t]
             failure == OnCallFailure("external", call_outcome)
             found == IF call_outcome = "ok"
                      THEN search(tn.intent.specific_book_requested, 1) ELSE <<>>
             called == [tn EXCEPT !.external_calls = @ + 1]
         IN  turn' = [turn EXCEPT ![t] =
                IF failure = "raise" THEN Raised(called, "UpstreamUnavailable")
                ELSE IF found # <<>>
                THEN [called EXCEPT !.found_books = found, !.pc = "persist"]
                ELSE [called EXCEPT
                        !.book_not_found = NotFoundNotice(tn.intent),
                        !.degraded = Degrade(tn, failure, "external_unavailable"),
                        !.trace = Traced(tn, 2, 0),
                        !.pc = AfterTier(2, 0)]]
    /\ UNCHANGED <<catalog, index, started, widget, browser>>

\* an index rebuilt around the new book alone
add_to_index_Rebuilt(idx, row) ==
    << [book_id |-> row.id, vector |-> embed_text(row.title)] >>

\* the stored book is embedded and appended to the Semantic Index
add_to_index(idx, row) ==
    Append(idx, [book_id |-> row.id, vector |-> embed_text(row.title)])

\* tier 2, second half: the found book is saved, embedded and indexed, and
\* becomes the only candidate
Tier2Persist(t) ==
    /\ turn[t].pc = "persist"
    /\ \E embed_outcome \in CallOutcomes :
         LET tn == turn[t]
             found == tn.found_books[1]
             row == StoredRow(catalog, found)
             fresh == Len(insert(catalog, found)) > Len(catalog)
             own == Tagged(<<row>>, 2)
         IN  /\ catalog' = insert(catalog, found)
             /\ index' = IF fresh /\ embed_outcome = "ok"
                         THEN add_to_index(index, row)
                         ELSE index
             /\ turn' = [turn EXCEPT ![t] =
                   [tn EXCEPT !.candidates = own,
                              !.trace = Traced(tn, 2, Len(own)),
                              !.pc = AfterTier(2, Len(own))]]
    /\ UNCHANGED <<started, widget, browser>>

\* tier 3: semantic vector search
Tier3(t) ==
    /\ turn[t].pc = "tier3"
    /\ \E embed_outcome \in CallOutcomes :
       \E own \in { Tier3Candidates(catalog, index, SearchPhrase(turn[t]),
                                     embed_outcome) } :
         LET tn == turn[t]
             failure == OnCallFailure("embedding", embed_outcome)
             embedded == [tn EXCEPT !.embed_failed = (embed_outcome # "ok")]
         IN  turn' = [turn EXCEPT ![t] =
                IF failure = "raise" THEN Raised(embedded, "UpstreamUnavailable")
                ELSE [embedded EXCEPT !.candidates = own,
                                !.degraded = Degrade(tn, failure, "embedding_skipped"),
                                !.trace = Traced(tn, 3, Len(own)),
                                !.pc = AfterTier(3, Len(own))]]
    /\ UNCHANGED <<catalog, index, started, widget, browser>>

\* tier 4: keyword fallback
Tier4(t) ==
    /\ turn[t].pc = "tier4"
    /\ LET tn == turn[t]
           own == Tier4Candidates(catalog, SearchPhrase(tn))
       IN  turn' = [turn EXCEPT ![t] =
              [tn EXCEPT !.candidates = own,
                         !.trace = Traced(tn, 4, Len(own)),
                         !.pc = AfterTier(4, Len(own))]]
    /\ UNCHANGED <<catalog, index, started, widget, browser>>

\* the narrator explains the candidates and the response is returned
Explain(t) ==
    /\ turn[t].pc = "explain"
    /\ \E reply \in NarratorReplies(turn[t].candidates) :
         LET tn == turn[t]
             failure == OnCallFailure("narrator", reply.kind)
             told == rerank(tn.candidates, tn.persona, reply)
             asked == [tn EXCEPT !.narrator_failed = (reply.kind # "ok")]
         IN  turn' = [turn EXCEPT ![t] =
                IF failure = "raise" THEN Raised(asked, "UpstreamUnavailable")
                ELSE [asked EXCEPT
                        !.degraded = Degrade(tn, failure, "narrator_template"),
                        !.result = Response(tn, told.message, told.recommendations,
                                            Degrade(tn, failure, "narrator_template")),
                        !.outcome = "returned",
                        !.pc = "done"]]
    /\ UNCHANGED <<catalog, index, started, widget, browser>>

\* tier 5: no candidates; the knowledge-fallback reply is returned
Knowledge(t) ==
    /\ turn[t].pc = "knowledge"
    /\ \E call_outcome \in CallOutcomes :
         LET tn == turn[t]
             failure == OnCallFailure("knowledge", call_outcome)
         IN  turn' = [turn EXCEPT ![t] =
                IF failure = "raise" THEN Raised(tn, "UpstreamUnavailable")
                ELSE [tn EXCEPT
                        !.degraded = Degrade(tn, failure, "knowledge_template"),
                        !.result = Response(tn,
                                      generate_from_knowledge(tn.message, tn.persona,
                                                              call_outcome),
                                      <<>>,
                                      Degrade(tn, failure, "knowledge_template")),
                        !.outcome = "returned",
                        !.pc = "done"]]
    /\ UNCHANGED <<catalog, index, started, widget, browser>>

\* greeting or small talk: a conversational reply, no retrieval
Converse(t) ==
    /\ turn[t].pc = "converse"
    /\ \E call_outcome \in CallOutcomes :
         LET tn == turn[t]
             failure == OnCallFailure("converse", call_outcome)
         IN  turn' = [turn EXCEPT ![t] =
                IF failure = "raise" THEN Raised(tn, "UpstreamUnavailable")
                ELSE [tn EXCEPT
                        !.degraded = Degrade(tn, failure, "converse_template"),
                        !.result = Response(tn,
                                      converse(tn.message, tn.persona, call_outcome),
                                      <<>>,
                                      Degrade(tn, failure, "converse_template")),
                        !.outcome = "returned",
                        !.pc = "done"]]
    /\ UNCHANGED <<catalog, index, started, widget, browser>>

\* CancelledCatalog that undoes the Catalog Store write of the cancelled turn
CancelledCatalog_Rollback(books, tn) ==
    SelectIn(books,
             [i \in 1..Len(books) |->
                 ~(\E j \in 1..Len(tn.found_books) :
                      /\ books[i].is_dynamic
                      /\ SameBook(books[i], tn.found_books[j].title,
                                  tn.found_books[j].author))], 1)

\* the Catalog Store after a turn was cancelled: a committed write stays
CancelledCatalog(books, tn) == books

\* the caller goes away mid-turn: the turn stops where it is
Cancel(t) ==
    /\ turn[t].pc \notin {"idle", "done"}
    /\ catalog' = CancelledCatalog(catalog, turn[t])
    /\ turn' = [turn EXCEPT ![t] =
          [IdleTurn EXCEPT !.pc = "done", !.outcome = "cancelled",
                           !.found_books = IF turn[t].pc = "persist" THEN <<>>
                                           ELSE turn[t].found_books]]
    /\ UNCHANGED <<index, started, widget, browser>>

Next ==
    \/ \E t \in Turns, m \in Messages \cup {EmptyMessage}, p \in PersonaIds :
          Receive(t, m, p)
    \/ \E t \in Turns : Classify(t)
    \/ \E t \in Turns : Tier1(t)
    \/ \E t \in Turns : Tier2Fetch(t)
    \/ \E t \in Turns : Tier2Persist(t)
    \/ \E t \in Turns : Tier3(t)
    \/ \E t \in Turns : Tier4(t)
    \/ \E t \in Turns : Explain(t)
    \/ \E t \in Turns : Knowledge(t)
    \/ \E t \in Turns : Converse(t)
    \/ \E t \in Turns : Cancel(t)

Spec == Init /\ [][Next]_vars

(***************************************************************************)
(* Properties                                                              *)
(***************************************************************************)
TierNumbers(trace) == [i \in 1..Len(trace) |-> trace[i].tier]

IsPrefix(p, q) == Len(p) <= Len(q) /\ SubSeq(q, 1, Len(p)) = p

\* the tiers a turn may attempt, in order
EligibleTiers(intent) ==
    IF intent.specific_book_requested # NoText THEN <<1, 2, 3, 4>> ELSE <<3, 4>>

\* the tier a turn is about to attempt or is in the middle of, 0 if none
PendingTier(pc) ==
    CASE pc = "tier1" -> 1
      [] pc \in {"tier2", "persist"} -> 2
      [] pc = "tier3" -> 3
      [] pc = "tier4" -> 4
      [] OTHER -> 0

\* C1: the tiers are attempted in the order 1, 2, 3, 4: the tiers attempted
\* so far are an initial stretch of the eligible tiers, every attempted tier
\* but the last yielded nothing, a tier is pending only when all eligible
\* tiers before it were attempted and empty, and no tier is pending once a
\* tier has yielded a candidate.
TierOrder ==
    \A t \in Turns :
        LET tn == turn[t]
            tiers == TierNumbers(tn.trace)
            pending == PendingTier(tn.pc)
        IN  /\ IsPrefix(tiers, EligibleTiers(tn.intent))
            /\ \A i \in 1..(Len(tn.trace) - 1) : tn.trace[i].n = 0
            /\ pending # 0 =>
                  /\ \A i \in 1..Len(tn.trace) : tn.trace[i].n = 0
                  /\ IsPrefix(Append(tiers, pending), EligibleTiers(tn.intent))
            /\ (tn.trace # <<>> /\ tn.trace[Len(tn.trace)].n > 0) =>
                  tn.pc \in {"explain", "done"}

\* a turn went through tiers 1 and 2 empty-handed and tier 3 found books
TierOrderWitness ==
    \E t \in Turns :
        /\ TierNumbers(turn[t].trace) = <<1, 2, 3>>
        /\ turn[t].trace[3].n > 0
        /\ turn[t].pc = "done"

RecommendedIds(result) ==
    [i \in 1..Len(result.recommendations) |-> result.recommendations[i].book_id]

CandidateIdSeq(candidates) == [i \in 1..Len(candidates) |-> candidates[i].book.id]

\* C2: the explained sequence returned for a candidate sequence has exactly
\* the candidates' book ids, in the candidates' order, whatever the
\* language-generation collaborator replied.
CandidateIntegrity ==
    \A t \in Turns :
        (turn[t].outcome = "returned" /\ turn[t].candidates # <<>>) =>
            RecommendedIds(turn[t].result) = CandidateIdSeq(turn[t].candidates)

\* two candidates were explained and the collaborator's reply covered only
\* the second of them
CandidateIntegrityWitness ==
    \E t \in Turns :
        /\ turn[t].outcome = "returned"
        /\ Len(turn[t].candidates) = 2
        /\ turn[t].result.recommendations[1].explanation = "metadata"
        /\ turn[t].result.recommendations[2].explanation = "generated"

\* C3: a turn with a non-empty message ends by returning a ChatTurnResult
\* with query_understood set, never by raising, whichever collaborator
\* calls failed.
NeverRaises ==
    \A t \in Turns :
        (turn[t].pc = "done" /\ turn[t].message # EmptyMessage) =>
            /\ turn[t].outcome = "returned"
            /\ turn[t].result.query_understood = TRUE

\* a turn returned although classifier, embedding and narrator all failed
NeverRaisesWitness ==
    \E t \in Turns :
        /\ turn[t].outcome = "returned"
        /\ turn[t].classifier_reply.kind \in {"unavailable", "timeout"}
        /\ turn[t].embed_failed
        /\ turn[t].degraded =
              <<"classifier_default", "embedding_skipped", "narrator_template">>

\* C4: when the embedding call of tier 3 fails, tier 3 yields no candidate,
\* the turn does not raise and the next thing it does is tier 4.
DegradeNotFail ==
    \A t \in Turns :
        turn[t].embed_failed =>
            /\ turn[t].outcome \in {"none", "returned"}
            /\ \E i \in 1..Len(turn[t].trace) :
                  /\ turn[t].trace[i] = [tier |-> 3, n |-> 0]
                  /\ IF i = Len(turn[t].trace)
                     THEN turn[t].pc = "tier4"
                     ELSE turn[t].trace[i + 1].tier = 4

\* the embedding failed and the keyword fallback found books
DegradeNotFailWitness ==
    \E t \in Turns :
        /\ turn[t].embed_failed
        /\ turn[t].outcome = "returned"
        /\ Len(turn[t].trace) >= 2
        /\ turn[t].trace[Len(turn[t].trace)].tier = 4
        /\ turn[t].trace[Len(turn[t].trace)].n > 0

\* the turn fetched a book just in time and saved it
JitDone(tn) == \E i \in 1..Len(tn.trace) : tn.trace[i] = [tier |-> 2, n |-> 1]

\* some row fetched just in time has a title that contains the text
NamesDynamicRow(books, text) ==
    \E i \in 1..Len(books) : books[i].is_dynamic /\ TitleMatches(text, books[i].title)

\* C5: when tier 1 missed and the external source found the book, the step
\* that saves it leaves exactly that book, with provenance
\* fetched_just_in_time, as the turn's only candidate and as a row of the
\* Catalog Store, and the turn returns exactly that one book; rows are never
\* removed; and a turn whose tier 1 runs while the store holds a just-in-time
\* row matching the named title gets a tier 1 hit.
JitSoleCandidate ==
    [][ /\ \A t \in Turns :
             ( /\ turn[t].pc = "persist"
               /\ turn'[t].pc # "persist"
               /\ turn'[t].outcome # "cancelled" ) =>
                LET c == turn'[t].candidates
                IN  /\ Len(c) = 1
                    /\ c[1].tier = 2
                    /\ c[1].book.is_dynamic
                    /\ c[1].book.title = turn[t].found_books[1].title
                    /\ TitleMatches(turn[t].intent.specific_book_requested,
                                    c[1].book.title)
                    /\ \E i \in 1..Len(catalog') : catalog'[i] = c[1].book
                    /\ turn'[t].pc = "explain"
        /\ \A t \in Turns :
             ( /\ turn[t].pc = "explain"
               /\ JitDone(turn[t])
               /\ turn'[t].pc = "done"
               /\ turn'[t].outcome # "cancelled" ) =>
                RecommendedIds(turn'[t].result) = <<turn[t].candidates[1].book.id>>
        /\ Len(catalog') >= Len(catalog)
        /\ SubSeq(catalog', 1, Len(catalog)) = catalog
        /\ \A t \in Turns :
             ( /\ turn[t].pc = "tier1"
               /\ turn'[t].pc # "tier1"
               /\ turn'[t].outcome # "cancelled"
               /\ NamesDynamicRow(catalog, turn[t].intent.specific_book_requested) ) =>
                /\ turn'[t].pc = "explain"
                /\ Len(turn'[t].trace) = 1
                /\ turn'[t].trace[1].tier = 1
                /\ turn'[t].trace[1].n >= 1
                /\ \E i \in 1..Len(turn'[t].candidates) :
                      turn'[t].candidates[i].book.is_dynamic
      ]_vars

\* a later turn found, by tier 1, a book that an earlier turn fetched just
\* in time
JitSoleCandidateWitness ==
    \E t \in Turns :
        /\ Len(turn[t].trace) = 1
        /\ turn[t].trace[1].tier = 1
        /\ turn[t].trace[1].n = 1
        /\ turn[t].candidates[1].book.is_dynamic
        /\ turn[t].outcome = "returned"

\* C6: however two turns that fetch the same title and author just in time
\* interleave, the Catalog Store holds exactly one row for that pair.
JitIdempotent ==
    \A t \in Turns :
        JitDone(turn[t]) =>
            Cardinality({ i \in 1..Len(catalog) :
                SameBook(catalog[i], turn[t].found_books[1].title,
                         turn[t].found_books[1].author) }) = 1

\* both turns missed at tier 1, fetched the same book and saved it
JitIdempotentWitness ==
    /\ \A t \in Turns : JitDone(turn[t]) /\ TierNumbers(turn[t].trace) = <<1, 2>>
    /\ turn["t1"].found_books = turn["t2"].found_books

\* C7: a turn in which tiers 1 to 4 all yielded nothing does not enter the
\* per-book explanation path, and it returns no book list and a non-empty
\* knowledge-fallback message.
TerminalState ==
    \A t \in Turns :
        LET tn == turn[t]
        IN  ( /\ tn.trace # <<>>
              /\ tn.trace[Len(tn.trace)].tier = 4
              /\ \A i \in 1..Len(tn.trace) : tn.trace[i].n = 0 ) =>
               /\ tn.pc \in {"knowledge", "done"}
               /\ tn.pc = "done" =>
                     /\ tn.outcome = "returned"
                     /\ tn.result.recommendations = <<>>
                     /\ tn.result.message # <<>>
                     /\ tn.result.message[1] = "knowledge"

\* all four tiers came up empty and the turn returned
TerminalStateWitness ==
    \E t \in Turns :
        /\ TierNumbers(turn[t].trace) = <<1, 2, 3, 4>>
        /\ \A i \in 1..4 : turn[t].trace[i].n = 0
        /\ turn[t].outcome = "returned"

\* the classification call failed, timed out or returned a malformed reply
ClassifierFailed(reply) ==
    \/ reply.kind \in {"unavailable", "timeout"}
    \/ /\ reply.kind = "ok"
       /\ \/ reply.needs_book_search \notin {"true", "false"}
          \/ reply.optimized_query = NoText

\* C8: when the classification call is unavailable or its reply is
\* malformed, the intent is the default one (book search required, search
\* phrase equal to the raw message) and the turn goes on to retrieval.
ClassifierFailSoft ==
    \A t \in Turns :
        ClassifierFailed(turn[t].classifier_reply) =>
            /\ turn[t].intent.needs_book_search = TRUE
            /\ turn[t].intent.optimized_query = turn[t].message
            /\ turn[t].outcome \in {"none", "returned"}
            /\ \/ turn[t].pc \in {"tier1", "tier3"}
               \/ turn[t].trace # <<>>

\* a malformed reply was received and the turn searched and returned
ClassifierFailSoftWitness ==
    \E t \in Turns :
        /\ turn[t].classifier_reply.kind = "ok"
        /\ turn[t].classifier_reply.needs_book_search = "maybe"
        /\ turn[t].trace # <<>>
        /\ turn[t].outcome = "returned"

\* C9: tier 1 is attempted only when the intent names a book, tier 2 only
\* after tier 1 was attempted and found nothing, and a turn whose intent
\* names no book starts at tier 3 and never calls the external source.
TierEligibility ==
    \A t \in Turns :
        LET tn == turn[t]
            tiers == TierNumbers(tn.trace)
            named == tn.intent.specific_book_requested # NoText
        IN  /\ (tn.pc = "tier1" \/ \E i \in 1..Len(tiers) : tiers[i] = 1) => named
            /\ ( \/ tn.pc \in {"tier2", "persist"}
                 \/ tn.external_calls > 0
                 \/ \E i \in 1..Len(tiers) : tiers[i] = 2 ) =>
                    (tn.trace # <<>> /\ tn.trace[1] = [tier |-> 1, n |-> 0])
            /\ ~named =>
                  /\ tn.external_calls = 0
                  /\ tn.pc \notin {"tier1", "tier2", "persist"}
                  /\ tn.trace # <<>> => tiers[1] = 3

\* a search that names no book ran tier 3 and returned
TierEligibilityWitness ==
    \E t \in Turns :
        /\ turn[t].intent.specific_book_requested = NoText
        /\ turn[t].intent.needs_book_search
        /\ turn[t].classifier_reply.kind = "ok"
        /\ turn[t].trace # <<>>
        /\ turn[t].outcome = "returned"

\* C10: all candidates a turn holds were produced by one tier, the tier
\* attempted last.
SingleTier ==
    \A t \in Turns :
        \A i \in 1..Len(turn[t].candidates) :
            /\ turn[t].trace # <<>>
            /\ turn[t].candidates[i].tier = turn[t].trace[Len(turn[t].trace)].tier

\* vector search returned two books while the keyword query matches too
SingleTierWitness ==
    \E t \in Turns :
        /\ Len(turn[t].candidates) = 2
        /\ turn[t].candidates[1].tier = 3
        /\ find_by_keywords(catalog, turn[t].intent.optimized_query) # <<>>
        /\ turn[t].outcome = "returned"

\* the text occurs in the title when letter case is ignored
TitleHas(title, text) ==
    \E k \in 0..(Len(title) - Len(text)) :
        \A j \in 1..Len(text) : LowerChar(title[k + j]) = LowerChar(text[j])

\* some stored row has a title in which the text occurs
StoredTitleHas(books, text) == \E i \in 1..Len(books) : TitleHas(books[i].title, text)

\* C11: when the intent names a book and some stored title matches it, the
\* tier 1 step returns the matching rows (all of them, and only them), so the
\* candidate list has at least one entry, the turn goes to explanation
\* without a book-not-found notice, and the result it returns has at least
\* one recommendation and no book_not_found.
LocalTitleHit ==
    [][ /\ \A t \in Turns :
             ( /\ turn[t].pc = "tier1"
               /\ turn'[t].pc # "tier1"
               /\ turn'[t].outcome # "cancelled"
               /\ StoredTitleHas(catalog, turn[t].intent.specific_book_requested) ) =>
                LET c == turn'[t].candidates
                    named == turn[t].intent.specific_book_requested
                IN  /\ Len(c) >= 1
                    /\ \A i \in 1..Len(c) :
                          /\ c[i].tier = 1
                          /\ TitleHas(c[i].book.title, named)
                          /\ \E k \in 1..Len(catalog) : catalog[k] = c[i].book
                    /\ \A k \in 1..Len(catalog) :
                          TitleHas(catalog[k].title, named) =>
                             \E i \in 1..Len(c) : c[i].book = catalog[k]
                    /\ turn'[t].pc = "explain"
                    /\ turn'[t].book_not_found = NoText
        /\ \A t \in Turns :
             ( /\ turn[t].pc = "explain"
               /\ turn[t].trace[1].tier = 1
               /\ turn[t].trace[1].n >= 1
               /\ turn'[t].outcome = "returned" ) =>
                /\ Len(turn'[t].result.recommendations) >= 1
                /\ turn'[t].result.book_not_found = NoText
      ]_vars

\* a turn returned the rows its tier 1 lookup matched
LocalTitleHitWitness ==
    \E t \in Turns :
        /\ turn[t].outcome = "returned"
        /\ turn[t].intent.specific_book_requested # NoText
        /\ StoredTitleHas(catalog, turn[t].intent.specific_book_requested)
        /\ turn[t].trace = <<[tier |-> 1, n |-> Len(turn[t].candidates)]>>
        /\ Len(turn[t].result.recommendations) >= 1
        /\ turn[t].result.book_not_found = NoText

\* the tiers a turn attempted all came back empty
AllTiersEmpty(tn) ==
    tn.trace = <<[tier |-> 1, n |-> 0], [tier |-> 2, n |-> 0],
                 [tier |-> 3, n |-> 0], [tier |-> 4, n |-> 0]>>

\* C12: a turn whose named book matched nothing (no local title match, no
\* external find, tiers 3 and 4 empty) returns no recommendations, the
\* knowledge-fallback message, and a book_not_found that is the requested
\* title letter for letter as it was asked (the text tiers 1 and 2 were
\* queried with), not a normalised form of it.
TotalMiss ==
    \A t \in Turns :
        (turn[t].outcome = "returned" /\ AllTiersEmpty(turn[t])) =>
            /\ turn[t].candidates = <<>>
            /\ turn[t].result.recommendations = <<>>
            /\ turn[t].result.message # <<>>
            /\ turn[t].result.message[1] = "knowledge"
            /\ turn[t].result.book_not_found # NoText
            /\ turn[t].result.book_not_found =
                  turn[t].classifier_reply.specific_book_requested

\* a turn asked for a title that is not the whole message and has capital
\* letters, found it nowhere, and returned the knowledge fallback
TotalMissWitness ==
    \E t \in Turns :
        /\ turn[t].outcome = "returned"
        /\ AllTiersEmpty(turn[t])
        /\ turn[t].external_calls = 1
        /\ "external_unavailable" \notin
              { turn[t].degraded[i] : i \in 1..Len(turn[t].degraded) }
        /\ turn[t].result.book_not_found # turn[t].message
        /\ turn[t].result.book_not_found # Lower(turn[t].result.book_not_found)
        /\ turn[t].result.message[1] = "knowledge"

\* C14: when the narrator's generation call fails or times out, the turn
\* still returns: the message is the template preamble, and the
\* recommendations are exactly the candidates, in candidate order, one
\* explanation each, every explanation built from stored metadata.
NarratorFailSoft ==
    \A t \in Turns :
        (turn[t].pc = "done" /\ turn[t].narrator_failed) =>
            LET recs == turn[t].result.recommendations
                c == turn[t].candidates
            IN  /\ turn[t].outcome = "returned"
                /\ turn[t].result.message = <<"Here's what I found:">>
                /\ Len(recs) = Len(c)
                /\ \A i \in 1..Len(c) :
                      /\ recs[i].book_id = c[i].book.id
                      /\ recs[i].explanation = "metadata"

\* a turn with two candidates returned after its narrator call failed
NarratorFailSoftWitness ==
    \E t \in Turns :
        /\ turn[t].outcome = "returned"
        /\ turn[t].narrator_failed
        /\ Len(turn[t].candidates) = 2
        /\ Len(turn[t].result.recommendations) = 2
        /\ turn[t].result.recommendations[1].book_id # turn[t].result.recommendations[2].book_id

\* the stage a position of handle_turn belongs to
StageOf(pc) ==
    CASE pc = "classify" -> 1
      [] pc \in {"tier1", "tier2", "persist", "tier3", "tier4"} -> 2
      [] pc \in {"explain", "knowledge", "converse"} -> 3
      [] pc = "done" -> 4
      [] OTHER -> 0

\* C15: within a turn the stages run strictly in the order classify,
\* retrieve, explain: a turn never steps back to an earlier stage; retrieval
\* is entered only out of classification and with an intent produced (from
\* the reply or the default); explanation is entered only when retrieval has
\* its final candidate list (the tier attempted last was non-empty and gave
\* exactly these candidates), the knowledge reply only after all four tiers
\* came back empty; and the candidate list no longer changes once the
\* explanation has started.
StagesInOrder ==
    [][ \A t \in Turns :
          LET old == turn[t]
              new == turn'[t]
          IN  /\ (old.pc \notin {"idle", "done"} /\ new # old) =>
                    StageOf(new.pc) >= StageOf(old.pc)
              /\ (StageOf(new.pc) = 2 /\ StageOf(old.pc) # 2) =>
                    /\ old.pc = "classify"
                    /\ new.classifier_reply.kind # "none"
                    /\ new.intent.needs_book_search
                    /\ new.intent.optimized_query # NoText
                    /\ new.trace = <<>>
              /\ (new.pc = "explain" /\ old.pc # "explain") =>
                    /\ StageOf(old.pc) = 2
                    /\ new.trace # <<>>
                    /\ new.trace[Len(new.trace)].n > 0
                    /\ new.trace[Len(new.trace)].n = Len(new.candidates)
              /\ (new.pc = "knowledge" /\ old.pc # "knowledge") =>
                    /\ old.pc = "tier4"
                    /\ new.candidates = <<>>
                    /\ new.trace[Len(new.trace)] = [tier |-> 4, n |-> 0]
              /\ (old.pc = "explain" /\ new.outcome = "returned") =>
                    /\ new.candidates = old.candidates
                    /\ new.trace = old.trace
                    /\ new.intent = old.intent
      ]_vars

\* a turn was classified, went through more than one tier, and its
\* candidates were explained by the narrator
StagesInOrderWitness ==
    \E t \in Turns :
        /\ turn[t].outcome = "returned"
        /\ turn[t].classifier_reply.kind = "ok"
        /\ Len(turn[t].trace) >= 2
        /\ turn[t].candidates # <<>>
        /\ turn[t].result.message[1] = "narrated"

(***************************************************************************)
(* Progress.  Every outbound call carries a timeout, so every awaited call *)
(* of a turn comes back (answered, failed or timed out) and the turn's     *)
(* next step is taken: weak fairness on the steps of each turn.  Nothing   *)
(* obliges a caller to send a request or to cancel one.  No step of a turn *)
(* waits for another turn, so progress is followed on one request slot.    *)
(***************************************************************************)
TurnStep(t) ==
    \/ Classify(t)
    \/ Tier1(t)
    \/ Tier2Fetch(t)
    \/ Tier2Persist(t)
    \/ Tier3(t)
    \/ Tier4(t)
    \/ Explain(t)
    \/ Knowledge(t)
    \/ Converse(t)

FairNext ==
    \/ \E m \in Messages \cup {EmptyMessage}, p \in PersonaIds : Receive("t1", m, p)
    \/ TurnStep("t1")
    \/ Cancel("t1")

FairSpec == Init /\ [][FairNext]_vars /\ WF_vars(TurnStep("t1"))

\* C16: every turn that was accepted eventually returns a ChatTurnResult
\* (unless its caller cancels it), whatever calls fail or time out on the
\* way: a call that never answers is ended by its timeout and the stage
\* takes its fallback, as for a call that failed outright.
EveryTurnReturns ==
    \A t \in Turns :
        (turn[t].pc = "classify") ~> (turn[t].outcome \in {"returned", "cancelled"})

\* a turn returned although its classification call timed out
EveryTurnReturnsWitness ==
    \E t \in Turns :
        /\ turn[t].outcome = "returned"
        /\ turn[t].classifier_reply.kind = "timeout"
        /\ turn[t].degraded # <<>>

\* the turn was cancelled after tier 2 had saved the book it fetched
CancelledAfterCommit(tn) == tn.outcome = "cancelled" /\ tn.found_books # <<>>

\* C17: cancelling a turn changes neither the Catalog Store nor the Semantic
\* Index, so a book that tier 2 had already saved when the turn was
\* cancelled stays a row of the store (no rollback), where a title lookup by
\* any later turn finds it.
NoRollback ==
    [][ \A t \in Turns :
          /\ (turn'[t].outcome = "cancelled" /\ turn'[t] # turn[t]) =>
                /\ catalog' = catalog
                /\ index' = index
          /\ CancelledAfterCommit(turn'[t]) =>
                LET found == turn'[t].found_books[1]
                IN  /\ \E k \in 1..Len(catalog') :
                          /\ catalog'[k].title = found.title
                          /\ catalog'[k].author = found.author
                          /\ catalog'[k].is_dynamic
                    /\ StoredTitleHas(catalog', found.title)
      ]_vars

\* a turn was cancelled after its tier 2 write, and the other turn got the
\* book it had saved from its tier 1 lookup
NoRollbackWitness ==
    \E t \in Turns, u \in Turns :
        /\ t # u
        /\ CancelledAfterCommit(turn[t])
        /\ turn[u].outcome = "returned"
        /\ Len(turn[u].trace) = 1
        /\ turn[u].trace[1].tier = 1
        /\ \E i \in 1..Len(turn[u].candidates) :
              /\ turn[u].candidates[i].book.is_dynamic
              /\ turn[u].candidates[i].book.title = turn[t].found_books[1].title

\* the two turns got the same message and the same answers from the
\* collaborators of classification and retrieval
SameRetrievalInputs(a, b) ==
    /\ a.message = b.message
    /\ a.classifier_reply = b.classifier_reply
    /\ a.embed_failed = b.embed_failed
    /\ a.external_calls = b.external_calls

\* C18: the persona does not influence retrieval: while the Catalog Store
\* and the Semantic Index are as they were at start (so both turns searched
\* the same store), two completed turns with the same message and the same
\* collaborator answers but different persona ids went through the same
\* tiers and have the same candidate book ids in the same order.
PersonaBlind ==
    (catalog = SeedCatalog /\ index = BuildIndex(SeedCatalog)) =>
        \A t \in Turns, u \in Turns :
            ( /\ turn[t].outcome = "returned"
              /\ turn[u].outcome = "returned"
              /\ turn[t].persona # turn[u].persona
              /\ SameRetrievalInputs(turn[t], turn[u]) ) =>
                /\ CandidateIdSeq(turn[t].candidates) = CandidateIdSeq(turn[u].candidates)
                /\ TierNumbers(turn[t].trace) = TierNumbers(turn[u].trace)
                /\ RecommendedIds(turn[t].result) = RecommendedIds(turn[u].result)

\* two turns that differ in persona only returned the same books, each in
\* the voice of its persona
PersonaBlindWitness ==
    /\ catalog = SeedCatalog
    /\ index = BuildIndex(SeedCatalog)
    /\ turn["t1"].outcome = "returned"
    /\ turn["t2"].outcome = "returned"
    /\ PersonaOf(turn["t1"].persona) # PersonaOf(turn["t2"].persona)
    /\ SameRetrievalInputs(turn["t1"], turn["t2"])
    /\ Len(turn["t1"].candidates) = 2
    /\ turn["t1"].candidates[1].tier = 3
    /\ CandidateIdSeq(turn["t1"].candidates) = CandidateIdSeq(turn["t2"].candidates)
    /\ turn["t1"].result.message # turn["t2"].result.message

\* the place of a stored row in the Catalog Store
PositionOf(books, b) == CHOOSE k \in 1..Len(books) : books[k] = b

Personalities == {"friendly", "sarcastic"}

Themes == {"dark", "light"}

\* the user objects a successful login or signup may return: one with saved
\* preferences, one without
Users ==
    { [id |-> "u1", personality |-> "sarcastic", theme |-> "light"],
      [id |-> "u2", personality |-> "", theme |-> ""] }

\* JSON.stringify(userData)
JSON_stringify(u) == <<"{", u.id, ",", u.personality, ",", u.theme, "}">>

\* whether JSON.parse(text) returns rather than throws
JSON_parses(text) ==
    /\ Len(text) = 7
    /\ text[1] = "{" /\ text[3] = "," /\ text[5] = "," /\ text[7] = "}"

\* JSON.parse(text) of a text that parses
JSON_parse(text) == [id |-> text[2], personality |-> text[4], theme |-> text[6]]

\* what localStorage may hold when the page loads: nothing, the items of an
\* earlier session, or a 'user' item that is not JSON
StoredAtLoad ==
    { EmptyStorage }
      \cup { [user |-> JSON_stringify(u), personality |-> p, theme |-> "dark"] :
                 u \in Users, p \in Personalities }
      \cup { [user |-> <<"{", "u1">>, personality |-> "", theme |-> "light"] }

\* the three useState(...) initialisers of UserProvider
UserProviderState(storage) ==
    [user |-> NoUser,
     personality |-> IF storage.personality # "" THEN storage.personality
                     ELSE "friendly",
     theme |-> IF storage.theme # "" THEN storage.theme ELSE "dark",
     mounted |-> FALSE]

\* the effects that run once the provider is mounted: the saved user is
\* loaded (an item that does not parse is removed), personality and theme
\* are written back
mount ==
    /\ ~context.mounted
    /\ LET savedUser == localStorage.user
       IN  /\ context' = [context EXCEPT
                  !.user = IF savedUser # NoText /\ JSON_parses(savedUser)
                           THEN JSON_parse(savedUser) ELSE @,
                  !.mounted = TRUE]
           /\ localStorage' =
                  [user |-> IF savedUser # NoText /\ ~JSON_parses(savedUser)
                            THEN NoText ELSE savedUser,
                   personality |-> context.personality,
                   theme |-> context.theme]
    /\ UNCHANGED <<catalog, index, turn, started, widget, modal, searchBox,
                   readingList>>

\* Settings: a personality button is clicked; the effect persists the value
setPersonality(p) ==
    /\ context.mounted
    /\ context' = [context EXCEPT !.personality = p]
    /\ localStorage' = [localStorage EXCEPT !.personality = p]
    /\ UNCHANGED <<catalog, index, turn, started, widget, modal, searchBox,
                   readingList>>

\* Settings: a theme button is clicked; the effect persists the value
setTheme(th) ==
    /\ context.mounted
    /\ context' = [context EXCEPT !.theme = th]
    /\ localStorage' = [localStorage EXCEPT !.theme = th]
    /\ UNCHANGED <<catalog, index, turn, started, widget, modal, searchBox,
                   readingList>>

\* login(userData): the user is set and stored; a saved personality or theme
\* of the user replaces the current one (and the effects persist them)
login(userData) ==
    /\ context.mounted
    /\ LET personality == IF userData.personality # ""
                          THEN userData.personality ELSE context.personality
           theme == IF userData.theme # "" THEN userData.theme
                    ELSE context.theme
       IN  /\ context' = [context EXCEPT !.user = userData,
                                         !.personality = personality,
                                         !.theme = theme]
           /\ localStorage' = [user |-> JSON_stringify(userData),
                               personality |-> personality,
                               theme |-> theme]
    /\ UNCHANGED <<catalog, index, turn, started, widget, modal, searchBox,
                   readingList>>

\* logout that leaves the stored item behind
logout_KeepsItem ==
    /\ context.mounted
    /\ context' = [context EXCEPT !.user = NoUser]
    /\ UNCHANGED <<catalog, index, turn, started, widget, localStorage, modal,
                   searchBox, readingList>>

\* logout(): the user is cleared and its item removed
logout ==
    /\ context.mounted
    /\ context' = [context EXCEPT !.user = NoUser]
    /\ localStorage' = [localStorage EXCEPT !.user = NoText]
    /\ UNCHANGED <<catalog, index, turn, started, widget, modal, searchBox,
                   readingList>>

(***************************************************************************)
(* The chat panel of the browser, which runs one of the two front ends:    *)
(* ChatWidget of the React client, or the chat form of the legacy app.js.  *)
(* Its requests are served by request slot "t1", oldest first; slot "t2"   *)
(* stands for other callers of the endpoint.                               *)
(***************************************************************************)
\* number of requests the widget sends in one behaviour
MaxSends == 1

\* what the user may have typed into the input box
Inputs == { <<" ">>, <<" ", "b", "b">>, <<"Z", " ">> }

RECURSIVE TrimStart(_)
TrimStart(s) == IF s = <<>> \/ Head(s) # " " THEN s ELSE TrimStart(Tail(s))

RECURSIVE TrimEnd(_)
TrimEnd(s) ==
    IF s = <<>> \/ s[Len(s)] # " " THEN s ELSE TrimEnd(SubSeq(s, 1, Len(s) - 1))

\* Trim that leaves the text as typed
Trim_None(s) == s

\* input.trim()
Trim(s) == TrimEnd(TrimStart(s))

\* `I couldn't find "${data.book_not_found}" in my database, but here's what
\* I know about it. `
NoticePrefix(book_not_found) ==
    <<"I couldn't find ">> \o book_not_found
        \o <<" in my database, but here's what I know about it. ">>

\* BotMessage that shows the reply without the book-not-found notice
BotMessage_NoNotice(data) ==
    [type |-> "bot",
     content |-> IF data.message # <<>> THEN data.message
                 ELSE <<"Here are some recommendations:">>,
     books |-> data.recommendations,
     hasError |-> data.error_message # <<>>]

\* the bot message sendMessage builds from the response data
BotMessage(data) ==
    LET botMessage == IF data.message # <<>> THEN data.message
                      ELSE <<"Here are some recommendations:">>
    IN  [type |-> "bot",
         content |-> IF data.book_not_found # NoText
                     THEN NoticePrefix(data.book_not_found) \o botMessage
                     ELSE botMessage,
         books |-> data.recommendations,
         hasError |-> data.error_message # <<>>]

\* onChange of the input box: setInput(e.target.value)
onChange(text) ==
    /\ widget.input # text
    /\ widget' = [widget EXCEPT !.input = text]
    /\ UNCHANGED <<catalog, index, turn, started, browser>>

\* chatAPI.send of the first api.js: the body has no personality field, so
\* the endpoint takes its default
chatAPI_send_NoPersonality(message, userId, personality) ==
    [message |-> message, user_id |-> userId, personality |-> "friendly"]

\* chatAPI.send(message, userId, personality): the body of POST /chat
chatAPI_send(message, userId, personality) ==
    [message |-> message, user_id |-> userId, personality |-> personality]

\* sendMessage(), up to the awaited chatAPI.send: blank input returns at
\* once; otherwise the box is cleared, the user message appended, the
\* typing indicator set and the request sent with the user id and the
\* personality of the context
sendMessage ==
    /\ widget.app = "react"
    /\ LET userMessage == Trim(widget.input)
       IN  widget' =
              IF Trim(widget.input) = <<>> THEN widget
              ELSE [widget EXCEPT
                      !.input = NoText,
                      !.messages = Append(@, [type |-> "user",
                                              content |-> userMessage]),
                      !.isTyping = TRUE,
                      !.requests = Append(@, chatAPI_send(userMessage,
                                                          context.user.id,
                                                          context.personality)),
                      !.sent = @ + 1]
    /\ UNCHANGED <<catalog, index, turn, started, browser>>

\* handleKeyPress: Enter without Shift calls sendMessage()
handleKeyPress == sendMessage

\* the Send button: disabled={!input.trim() || isTyping}, onClick={sendMessage}
SendButton ==
    /\ ~(Trim(widget.input) = <<>> \/ widget.isTyping)
    /\ sendMessage

\* POST /chat: the oldest request in flight reaches the endpoint
Arrive ==
    /\ widget.requests # <<>>
    /\ turn["t1"].pc = "idle"
    /\ Receive("t1", Head(widget.requests).message, Head(widget.requests).personality)

\* a sequence without its i-th element
RemoveAt(s, i) == SubSeq(s, 1, i - 1) \o SubSeq(s, i + 1, Len(s))

\* the bot message of the catch branch
TroubleMessage ==
    [type |-> "bot", content |-> <<"Hmm, I had a little trouble there.">>]

\* Settled without the finally branch
Settled_StillTyping(w, i, botMessage) ==
    [w EXCEPT !.messages = Append(@, botMessage),
              !.requests = RemoveAt(@, i)]

\* sendMessage() after the await of request i has settled: the bot message is
\* appended, and the finally branch clears the typing indicator
Settled(w, i, botMessage) ==
    [w EXCEPT !.messages = Append(@, botMessage),
              !.isTyping = FALSE,
              !.requests = RemoveAt(@, i)]

\* sendMessage() after the await: the response is shown as a bot message
onResponse ==
    /\ widget.app = "react"
    /\ widget.requests # <<>>
    /\ turn["t1"].pc = "done"
    /\ turn["t1"].outcome = "returned"
    /\ widget' = Settled(widget, 1, BotMessage(turn["t1"].result))
    /\ turn' = [turn EXCEPT !["t1"] = IdleTurn]
    /\ UNCHANGED <<catalog, index, started, browser>>

\* sendMessage(), catch branch: the request was lost, or its response was
\* lost or was an error status
onError ==
    /\ widget.app = "react"
    /\ widget.requests # <<>>
    /\ turn["t1"].pc \in {"idle", "done"}
    /\ widget' = Settled(widget, 1, TroubleMessage)
    /\ turn' = [turn EXCEPT !["t1"] = IdleTurn]
    /\ UNCHANGED <<catalog, index, started, browser>>

\* the chat panel of app.js when the page has loaded
InitialForm ==
    [app |-> "legacy", messages |-> <<>>, input |-> NoText, isTyping |-> FALSE,
     requests |-> <<>>, sent |-> 0]

\* the "Thinking..." node sendChatMessage appends while it waits
TypingMsg == [type |-> "bot", content |-> <<"Thinking...">>]

\* typingMsg.remove(): the node of the oldest request in flight goes
RemoveTyping(messages) ==
    LET at == CHOOSE i \in 1..Len(messages) :
                 /\ messages[i] = TypingMsg
                 /\ \A j \in 1..(i - 1) : messages[j] # TypingMsg
    IN  SubSeq(messages, 1, at - 1) \o SubSeq(messages, at + 1, Len(messages))

\* app.js, submit handler of the chat form, with sendChatMessage(message) up
\* to the awaited api('/chat'): blank input does nothing; otherwise the user
\* message and the typing node are appended, the request is sent (it has no
\* personality field) and the box is cleared
submit ==
    /\ widget.app = "legacy"
    /\ LET message == Trim(widget.input)
       IN  widget' =
              IF message = <<>> THEN widget
              ELSE [widget EXCEPT
                      !.input = NoText,
                      !.messages = @ \o << [type |-> "user", content |-> message],
                                           TypingMsg >>,
                      !.requests = Append(@, [message |-> message,
                                              personality |-> "friendly"]),
                      !.sent = @ + 1]
    /\ UNCHANGED <<catalog, index, turn, started, browser>>

\* sendChatMessage() after the await: the typing node is replaced by the reply
sendChatMessage_done ==
    /\ widget.app = "legacy"
    /\ widget.requests # <<>>
    /\ turn["t1"].pc = "done"
    /\ turn["t1"].outcome = "returned"
    /\ LET response == turn["t1"].result
       IN  widget' = [widget EXCEPT
                        !.messages =
                            Append(RemoveTyping(@),
                                   [type |-> "bot",
                                    content |-> IF response.message # <<>>
                                                THEN response.message
                                                ELSE <<"Here are some recommendations:">>,
                                    books |-> response.recommendations]),
                        !.requests = Tail(@)]
    /\ turn' = [turn EXCEPT !["t1"] = IdleTurn]
    /\ UNCHANGED <<catalog, index, started, browser>>

\* sendChatMessage(), catch branch
sendChatMessage_failed ==
    /\ widget.app = "legacy"
    /\ widget.requests # <<>>
    /\ turn["t1"].pc \in {"idle", "done"}
    /\ widget' = [widget EXCEPT
                    !.messages =
                        Append(RemoveTyping(@),
                               [type |-> "bot",
                                content |-> <<"Sorry, I encountered an error.">>]),
                    !.requests = Tail(@)]
    /\ turn' = [turn EXCEPT !["t1"] = IdleTurn]
    /\ UNCHANGED <<catalog, index, started, browser>>

\* the browser has loaded one of the two front ends
ChatInit ==
    /\ catalog = SeedCatalog
    /\ index = BuildIndex(SeedCatalog)
    /\ turn = [t \in Turns |-> IdleTurn]
    /\ started = 0
    /\ widget \in {InitialWidget, InitialForm}
    /\ \E p \in PersonaIds :
           /\ context = [user |-> NoUser, personality |-> p, theme |-> "dark",
                         mounted |-> TRUE]
           /\ localStorage = [user |-> NoText, personality |-> p,
                              theme |-> "dark"]
    /\ modal = ClosedModal
    /\ searchBox = EmptySearch
    /\ readingList = EmptyList

ChatNext ==
    \/ \E text \in Inputs \cup {NoText} : onChange(text)
    \/ widget.sent < MaxSends /\ handleKeyPress
    \/ widget.sent < MaxSends /\ submit
    \/ Arrive
    \/ \E p \in PersonaIds : Receive("t2", EmptyMessage, p)
    \/ TurnStep("t1")
    \/ onResponse
    \/ onError
    \/ sendChatMessage_done
    \/ sendChatMessage_failed

ChatSpec == ChatInit /\ [][ChatNext]_vars

\* the tier 2 attempt of the turn ended without a book
Tier2Missed(tn) == \E i \in 1..Len(tn.trace) : tn.trace[i] = [tier |-> 2, n |-> 0]

\* C13: when tier 2 runs and the external source has no book for the
\* requested title, the turn records a book-not-found notice naming the
\* requested book and goes on to tier 3; the result the turn returns carries
\* that notice; and when the response reaches the chat widget, the widget
\* appends a bot message whose content is the notice sentence naming the book
\* followed by the reply message, with the response's recommendations as its
\* books.
NotFoundShown ==
    [][ /\ \A t \in Turns :
             ( /\ turn[t].pc = "tier2"
               /\ turn'[t].pc \notin {"tier2", "persist", "done"} ) =>
                /\ turn'[t].book_not_found =
                      turn[t].classifier_reply.specific_book_requested
                /\ turn'[t].book_not_found # NoText
                /\ turn'[t].trace[Len(turn'[t].trace)] = [tier |-> 2, n |-> 0]
                /\ turn'[t].pc = "tier3"
        /\ \A t \in Turns :
             ( /\ turn'[t].outcome = "returned"
               /\ turn[t].outcome # "returned"
               /\ Tier2Missed(turn[t]) ) =>
                /\ turn'[t].result.book_not_found =
                      turn[t].classifier_reply.specific_book_requested
                /\ turn'[t].result.book_not_found # NoText
        /\ (onResponse /\ Tier2Missed(turn["t1"])) =>
                LET shown == widget'.messages[Len(widget'.messages)]
                    named == turn["t1"].classifier_reply.specific_book_requested
                    data == turn["t1"].result
                IN  /\ shown.type = "bot"
                    /\ IsPrefix(<<"I couldn't find ">> \o named, shown.content)
                    /\ shown.content =
                          <<"I couldn't find ">> \o named
                             \o <<" in my database, but here's what I know about it. ">>
                             \o data.message
                    /\ shown.books = data.recommendations
      ]_vars

\* the widget shows a bot message that starts with the notice for a book
\* found nowhere and carries the books the vector search found instead
NotFoundShownWitness ==
    \E i \in 2..Len(widget.messages) :
        LET shown == widget.messages[i]
        IN  /\ shown.type = "bot"
            /\ "books" \in DOMAIN shown
            /\ Len(shown.books) = 2
            /\ IsPrefix(<<"I couldn't find ", "Z", "z">>, shown.content)

\* nothing but white space
IsBlank(s) == \A i \in 1..Len(s) : s[i] = " "

UserMessages(messages) ==
    Cardinality({ i \in 1..Len(messages) : messages[i].type = "user" })

\* C20: an empty message never starts a pipeline run: the turn ends with
\* InvalidInput in the step that receives it, with no classification,
\* retrieval or narration recorded, no external call and no store change, and
\* only non-empty messages are ever classified; and while the widget's input
\* box is empty or holds only white space, no step (sendMessage included)
\* sends a request or appends a user message, so every request and every
\* user message shown has visible text.
BlankNeverSent ==
    [][ /\ \A t \in Turns :
             (turn'[t].outcome = "InvalidInput" /\ turn'[t] # turn[t]) =>
                /\ turn[t].pc \in {"idle", "done"}
                /\ turn'[t] = [IdleTurn EXCEPT !.pc = "done",
                                               !.persona = turn'[t].persona,
                                               !.outcome = "InvalidInput"]
                /\ catalog' = catalog
                /\ index' = index
        /\ \A t \in Turns :
             turn'[t].pc \notin {"idle", "done"} => turn'[t].message # EmptyMessage
        /\ IsBlank(widget.input) =>
                /\ widget'.sent = widget.sent
                /\ Len(widget'.requests) <= Len(widget.requests)
                /\ UserMessages(widget'.messages) = UserMessages(widget.messages)
        /\ \A k \in 1..Len(widget'.requests) : ~IsBlank(widget'.requests[k].message)
        /\ \A i \in 1..Len(widget'.messages) :
             widget'.messages[i].type = "user" => ~IsBlank(widget'.messages[i].content)
      ]_vars

\* white space sits in the input box and nothing was sent or shown, and an
\* empty message posted to the endpoint was rejected
BlankNeverSentWitness ==
    /\ widget.input # NoText
    /\ IsBlank(widget.input)
    /\ widget.sent = 0
    /\ widget.requests = <<>>
    /\ Len(widget.messages) = 1
    /\ turn["t1"].pc = "idle"
    /\ turn["t2"].outcome = "InvalidInput"

\* C21: a finished turn in which the classifier reply was unusable, the
\* embedding call of the vector search failed, or the narrator's generation
\* call failed, has returned (it did not fail), and the result it returned
\* carries a non-empty error_message that names each fallback taken.
DegradedWarned ==
    \A t \in Turns :
        ( /\ turn[t].pc = "done"
          /\ \/ ClassifierFailed(turn[t].classifier_reply)
             \/ turn[t].embed_failed
             \/ turn[t].narrator_failed ) =>
            /\ turn[t].outcome = "returned"
            /\ turn[t].result.query_understood
            /\ turn[t].result.error_message # <<>>
            /\ LET warned == { turn[t].result.error_message[i] :
                                  i \in 1..Len(turn[t].result.error_message) }
               IN  /\ ClassifierFailed(turn[t].classifier_reply) =>
                          "classifier_default" \in warned
                   /\ turn[t].embed_failed => "embedding_skipped" \in warned
                   /\ turn[t].narrator_failed => "narrator_template" \in warned

\* a turn returned with a warning after both its classification and its
\* embedding call had failed
DegradedWarnedWitness ==
    \E t \in Turns :
        /\ turn[t].outcome = "returned"
        /\ ClassifierFailed(turn[t].classifier_reply)
        /\ turn[t].embed_failed
        /\ Len(turn[t].result.error_message) >= 2

\* the index as built at process start
StartIndex == BuildIndex(SeedCatalog)

\* C22: the Semantic Index starts as the index built from the seed catalog
\* and is never rebuilt: every step keeps all entries it held, in place, and
\* the only step that changes it is a tier 2 save, which appends exactly one
\* entry, that of the book the turn has just fetched and stored.
IndexAppendOnly ==
    [][ /\ IsPrefix(StartIndex, index')
        /\ IsPrefix(index, index')
        /\ index' # index =>
              \E t \in Turns :
                  /\ turn[t].pc = "persist"
                  /\ turn'[t].pc # "persist"
                  /\ Len(index') = Len(index) + 1
                  /\ Len(turn'[t].candidates) = 1
                  /\ turn'[t].candidates[1].tier = 2
                  /\ index'[Len(index')].book_id = turn'[t].candidates[1].book.id
                  /\ \A e \in 1..Len(index) :
                         index[e].book_id # index'[Len(index')].book_id ]_vars

\* a tier 2 save has added an entry behind the entries built at start, and
\* the turn that made it has returned
IndexAppendOnlyWitness ==
    /\ Len(index) > Len(StartIndex)
    /\ \E t \in Turns :
           /\ turn[t].outcome = "returned"
           /\ \E i \in 1..Len(turn[t].trace) : turn[t].trace[i].tier = 2
           /\ Len(turn[t].candidates) = 1
           /\ index[Len(index)].book_id = turn[t].candidates[1].book.id

(***************************************************************************)
(* ChatWidget inside UserProvider, against an endpoint that answers each   *)
(* request in flight at any time, in any order, or not at all.             *)
(***************************************************************************)
\* number of chat requests the widget sends in one behaviour
MaxKeys == 2

\* the response bodies the endpoint may send: a plain reply,
\* or a reply without message that carries a warning
ChatReplies ==
    { [message |-> <<"Try this one.">>, recommendations |-> <<>>,
       query_understood |-> TRUE, book_not_found |-> NoText,
       error_message |-> <<>>],
      [message |-> <<>>, recommendations |-> <<>>,
       query_understood |-> TRUE, book_not_found |-> NoText,
       error_message |-> <<"narrator_template">>] }

\* sendMessage() after the await of request i was fulfilled
awaitFulfilled(i, data) ==
    /\ i \in 1..Len(widget.requests)
    /\ widget' = Settled(widget, i, BotMessage(data))
    /\ UNCHANGED <<catalog, index, turn, started, browser>>

\* sendMessage() after the await of request i was rejected (transport error
\* or error status): the catch branch
awaitRejected(i) ==
    /\ i \in 1..Len(widget.requests)
    /\ widget' = Settled(widget, i, TroubleMessage)
    /\ UNCHANGED <<catalog, index, turn, started, browser>>

\* the page has loaded: UserProvider and ChatWidget hold their initial state
WidgetInit ==
    /\ catalog = SeedCatalog
    /\ index = BuildIndex(SeedCatalog)
    /\ turn = [t \in Turns |-> IdleTurn]
    /\ started = 0
    /\ widget = InitialWidget
    /\ localStorage \in StoredAtLoad
    /\ context = UserProviderState(localStorage)
    /\ modal = ClosedModal
    /\ searchBox = EmptySearch
    /\ readingList = EmptyList

WidgetNext ==
    \/ mount
    \/ \E p \in Personalities : setPersonality(p)
    \/ \E th \in Themes : setTheme(th)
    \/ \E userData \in Users : login(userData)
    \/ logout
    \/ \E text \in Inputs \cup {NoText} : onChange(text)
    \/ widget.sent < MaxKeys /\ SendButton
    \/ widget.sent < MaxKeys /\ handleKeyPress
    \/ \E i \in 1..MaxKeys, data \in ChatReplies : awaitFulfilled(i, data)
    \/ \E i \in 1..MaxKeys : awaitRejected(i)

WidgetSpec == WidgetInit /\ [][WidgetNext]_vars

\* C23: every chat request is sent with the personality (and the user id)
\* the context holds at the moment of sending; a personality selected in
\* Settings becomes the personality of the context, and so does the saved
\* personality of a user who logs in, so every request sent after that and
\* before the next change carries it.
PersonaByValue ==
    [][ /\ Len(widget'.requests) > Len(widget.requests) =>
              /\ context' = context
              /\ widget'.requests[Len(widget'.requests)].personality
                     = context.personality
              /\ widget'.requests[Len(widget'.requests)].user_id
                     = context.user.id
        /\ \A p \in Personalities :
               setPersonality(p) => context'.personality = p
        /\ ( /\ context.mounted
             /\ context'.user # context.user
             /\ context'.user.personality # "" ) =>
               context'.personality = context'.user.personality
        /\ context'.personality # context.personality =>
               \/ setPersonality(context'.personality)
               \/ login(context'.user) ]_vars

\* two requests are in flight, the first sent before and the second after
\* the personality was changed: each carries the value of its moment
PersonaByValueWitness ==
    /\ Len(widget.requests) = 2
    /\ widget.requests[1].personality = "friendly"
    /\ widget.requests[2].personality = "sarcastic"
    /\ context.personality = "sarcastic"
    /\ context.user.id = "u1"

\* C24: when a chat request of ChatWidget fails (it was lost, or its response
\* was lost or was an error status), exactly one message is appended: a bot
\* message with the fixed "trouble" text and without a book list, and the
\* typing indicator is cleared; no other step shows that text, in particular
\* no answered request, whatever the endpoint returned.
TroubleOnlyOnFailure ==
    [][ /\ onError =>
              /\ widget'.messages = Append(widget.messages, TroubleMessage)
              /\ DOMAIN TroubleMessage = {"type", "content"}
              /\ ~widget'.isTyping
        /\ ( \E k \in (Len(widget.messages) + 1)..Len(widget'.messages) :
                 widget'.messages[k].content = TroubleMessage.content ) =>
              /\ onError
              /\ ~onResponse
              /\ Len(widget'.messages) = Len(widget.messages) + 1 ]_vars

\* the endpoint had returned a result, the response was lost on its way, and
\* the widget shows the trouble text and is not typing any more
TroubleOnlyOnFailureWitness ==
    /\ widget.app = "react"
    /\ widget.sent = 1
    /\ widget.requests = <<>>
    /\ ~widget.isTyping
    /\ widget.messages[Len(widget.messages)] = TroubleMessage
    /\ started > 0

\* C25: while a chat request of ChatWidget is awaiting its response (a
\* request is in flight and isTyping is true), no step issues another chat
\* request.
NoSendWhileTyping ==
    [][ (widget.isTyping /\ widget.requests # <<>>) =>
            Len(widget'.requests) <= Len(widget.requests) ]_vars

\* C26: once a request of ChatWidget settles, exactly one bot message is
\* appended for it, and requests settle in the list in the order of the user
\* messages they answer: the request that settles is the oldest one still
\* awaited, so no reply is appended ahead of the reply to an earlier user
\* message.
RepliesInOrder ==
    [][ Len(widget'.requests) < Len(widget.requests) =>
            /\ Len(widget'.messages) = Len(widget.messages) + 1
            /\ widget'.messages[Len(widget'.messages)].type = "bot"
            /\ SubSeq(widget'.messages, 1, Len(widget.messages)) = widget.messages
            /\ widget'.requests = Tail(widget.requests) ]_vars

\* C30: once the mount effect of UserProvider has run, through every login
\* and logout, a user is held in memory exactly when localStorage holds a
\* 'user' item, and that item is the JSON text of the user held in memory.
UserMirrorsStorage ==
    context.mounted =>
        /\ (context.user # NoUser) <=> (localStorage.user # NoText)
        /\ context.user # NoUser =>
               /\ localStorage.user = JSON_stringify(context.user)
               /\ JSON_parses(localStorage.user)
               /\ JSON_parse(localStorage.user) = context.user

\* after the mount effect, a user without saved preferences is logged in and
\* stored, next to the personality and theme items
UserMirrorsStorageWitness ==
    /\ context.mounted
    /\ context.user.id = "u2"
    /\ localStorage.user = JSON_stringify(context.user)
    /\ localStorage.theme = "light"
    /\ localStorage.personality = "friendly"

(***************************************************************************)
(* BookModal of the React client, opened and closed by App.                *)
(***************************************************************************)
\* number of description requests BookModal sends in one behaviour
MaxFetches == 3

\* a stored description counts only if it is longer than this
DescriptionMin == 50

\* a text of n characters
TextOf(c, n) == [k \in 1..n |-> c]

\* the books a page may hand to the modal: without description, with one
\* that is too short, and with a full one
ModalBooks ==
    { [id |-> "b1", description |-> NoText],
      [id |-> "b2", description |-> TextOf("s", DescriptionMin)],
      [id |-> "b3", description |-> TextOf("f", DescriptionMin + 1)],
      [id |-> "b4", description |-> TextOf("g", DescriptionMin + 1)] }

\* the description the server generates for a book
GeneratedDescription(bookId) == <<"About ", bookId>>

\* response.data of POST /books/{id}/description: a generated description,
\* or none
DescriptionReplies(bookId) ==
    { [description |-> GeneratedDescription(bookId)],
      [description |-> NoText] }

\* the effect on [isOpen, book?.id], with fetchDescription(book.id) up to
\* its await, as it runs over modal state m once book and isOpen are set
ModalEffect(m) ==
    IF m.isOpen /\ m.book # NoBook
    THEN IF Len(m.book.description) > DescriptionMin
         THEN [m EXCEPT !.isGenerating = FALSE,
                        !.description = m.book.description]
         ELSE IF m.book.id = ""
              THEN [m EXCEPT !.isGenerating = FALSE, !.description = NoText]
              ELSE [m EXCEPT !.isGenerating = TRUE,
                             !.description = NoText,
                             !.pending = Append(@, m.book.id),
                             !.fetched = @ + 1]
    ELSE [m EXCEPT !.description = NoText, !.isGenerating = FALSE]

\* App.handleBookClick(book): the book becomes the selected book and the
\* modal is open; the effect runs when isOpen or the book id has changed
handleBookClick(book) ==
    /\ LET shown == [modal EXCEPT !.book = book, !.isOpen = TRUE]
       IN  /\ modal' = IF modal.isOpen /\ modal.book.id = book.id THEN shown
                       ELSE ModalEffect(shown)
           /\ modal'.fetched <= MaxFetches
    /\ UNCHANGED <<catalog, index, turn, started, widget, context,
                   localStorage, searchBox, readingList>>

\* App.closeBookModal: no book is selected, and the effect resets the modal
closeBookModal ==
    /\ modal.isOpen
    /\ modal' = ModalEffect([modal EXCEPT !.book = NoBook, !.isOpen = FALSE])
    /\ UNCHANGED <<catalog, index, turn, started, widget, context,
                   localStorage, searchBox, readingList>>

\* fetchDescription after its await was fulfilled, for the i-th request in
\* flight
descriptionFulfilled(i, data) ==
    /\ i \in 1..Len(modal.pending)
    /\ data \in DescriptionReplies(modal.pending[i])
    /\ modal' = [modal EXCEPT
          !.description = IF data.description # NoText
                          THEN data.description
                          ELSE <<"Description unavailable.">>,
          !.isGenerating = FALSE,
          !.pending = RemoveAt(@, i)]
    /\ UNCHANGED <<catalog, index, turn, started, widget, context,
                   localStorage, searchBox, readingList>>

\* fetchDescription after its await was rejected: catch and finally
descriptionRejected(i) ==
    /\ i \in 1..Len(modal.pending)
    /\ modal' = [modal EXCEPT
          !.description = <<"Description unavailable at this time.">>,
          !.isGenerating = FALSE,
          !.pending = RemoveAt(@, i)]
    /\ UNCHANGED <<catalog, index, turn, started, widget, context,
                   localStorage, searchBox, readingList>>

ModalNext ==
    \/ \E book \in ModalBooks : handleBookClick(book)
    \/ closeBookModal
    \/ \E i \in 1..MaxFetches :
         \E data \in UNION { DescriptionReplies(b.id) : b \in ModalBooks } :
           descriptionFulfilled(i, data)
    \/ \E i \in 1..MaxFetches : descriptionRejected(i)

ModalSpec == Init /\ [][ModalNext]_vars

\* C27: the description BookModal shows while it is open belongs to the
\* book that is open: it is that book's stored description, the description
\* generated for that book, or one of the two "unavailable" texts; never
\* the description fetched for another book.
DescriptionOfOpenBook ==
    (modal.isOpen /\ modal.description # NoText) =>
        modal.description \in
            { modal.book.description,
              GeneratedDescription(modal.book.id),
              <<"Description unavailable.">>,
              <<"Description unavailable at this time.">> }

(***************************************************************************)
(* The search box of app.js (initSearch).                                  *)
(***************************************************************************)
\* number of input events in the search box in one behaviour
MaxTyped == 3

\* the queries shorter than this are not searched
MinQuery == 2

\* the dropdown shows at most this many results
MaxShown == 8

\* what the search input may hold after an input event
SearchInputs ==
    { NoText, <<"a">>, <<"a", "b">>, <<"a", "b", " ">>, <<"a", " ", "c">> }

\* encodeURIComponent(query), over the characters of SearchInputs
encodeURIComponent(query) ==
    [k \in 1..Len(query) |-> IF query[k] = " " THEN "%20" ELSE query[k]]

\* the bodies GET /discover/search may answer with: no results, or one book
SearchReplies ==
    { [results |-> <<>>],
      [results |-> << [id |-> "s1", title |-> <<"a", "b">>] >>] }

\* the 'input' listener: the timer is cleared; a query shorter than two
\* characters hides the dropdown, any other query is scheduled
input(text) ==
    /\ searchBox.typed < MaxTyped
    /\ text # searchBox.value
    /\ LET query == Trim(text)
       IN  searchBox' =
              IF Len(query) < MinQuery
              THEN [searchBox EXCEPT !.value = text, !.typed = @ + 1,
                                     !.debounceTimer = NoText,
                                     !.hidden = TRUE]
              ELSE [searchBox EXCEPT !.value = text, !.typed = @ + 1,
                                     !.debounceTimer = query]
    /\ UNCHANGED <<catalog, index, turn, started, widget, context,
                   localStorage, modal, readingList>>

\* the debounce timer fires: the search request for its query is sent
timeout ==
    /\ searchBox.debounceTimer # NoText
    /\ searchBox' = [searchBox EXCEPT
          !.debounceTimer = NoText,
          !.pending = Append(@, [query |-> searchBox.debounceTimer,
                                 url |-> <<"/discover/search?q=">>
                                    \o encodeURIComponent(searchBox.debounceTimer)])]
    /\ UNCHANGED <<catalog, index, turn, started, widget, context,
                   localStorage, modal, readingList>>

\* the timer callback after its await, for the i-th request in flight: the
\* results (or "No results found") are rendered and the dropdown is opened
searchFulfilled(i, data) ==
    /\ i \in 1..Len(searchBox.pending)
    /\ searchBox' = [searchBox EXCEPT
          !.results = [query |-> searchBox.pending[i].query,
                       items |-> Take(data.results, MaxShown)],
          !.hidden = FALSE,
          !.pending = RemoveAt(@, i)]
    /\ UNCHANGED <<catalog, index, turn, started, widget, context,
                   localStorage, modal, readingList>>

\* the await of the i-th request is rejected: the callback ends there
searchRejected(i) ==
    /\ i \in 1..Len(searchBox.pending)
    /\ searchBox' = [searchBox EXCEPT !.pending = RemoveAt(@, i)]
    /\ UNCHANGED <<catalog, index, turn, started, widget, context,
                   localStorage, modal, readingList>>

\* a click outside the search container hides the dropdown
clickOutside ==
    /\ ~searchBox.hidden
    /\ searchBox' = [searchBox EXCEPT !.hidden = TRUE]
    /\ UNCHANGED <<catalog, index, turn, started, widget, context,
                   localStorage, modal, readingList>>

\* a click on a result item: the dropdown is hidden and the input emptied
\* (no input event is raised, so a scheduled timer stays)
clickResult ==
    /\ ~searchBox.hidden
    /\ searchBox.results.items # <<>>
    /\ searchBox' = [searchBox EXCEPT !.hidden = TRUE, !.value = NoText]
    /\ UNCHANGED <<catalog, index, turn, started, widget, context,
                   localStorage, modal, readingList>>

SearchNext ==
    \/ \E text \in SearchInputs : input(text)
    \/ timeout
    \/ \E i \in 1..MaxTyped, data \in SearchReplies : searchFulfilled(i, data)
    \/ \E i \in 1..MaxTyped : searchRejected(i)
    \/ clickOutside
    \/ clickResult

SearchSpec == Init /\ [][SearchNext]_vars

\* C28: the dropdown of the search box is filled or re-opened only with the
\* response to the query the input holds at that moment: a step that
\* replaces the shown results or opens the hidden dropdown does so for the
\* trimmed value of the input, which has at least two characters.
LatestQueryShown ==
    [][ ( \/ searchBox'.results # searchBox.results
          \/ searchBox.hidden /\ ~searchBox'.hidden ) =>
            /\ Len(Trim(searchBox'.value)) >= MinQuery
            /\ searchBox'.results.query = Trim(searchBox'.value) ]_vars

(***************************************************************************)
(* The ReadingList page of the React client and the reading list the       *)
(* server keeps for the user.                                              *)
(***************************************************************************)
\* number of clicks on a remove button in one behaviour
MaxClicks == 2

\* number of times the page requests the list in one behaviour
MaxLoads == 2

\* the user of the reading list
Reader == [id |-> "u1", personality |-> "sarcastic", theme |-> "light"]

\* the books of a list other than bookId, in their order
RECURSIVE Without(_, _)
Without(books, bookId) ==
    IF books = <<>> THEN <<>>
    ELSE IF Head(books) = bookId THEN Without(Tail(books), bookId)
         ELSE <<Head(books)>> \o Without(Tail(books), bookId)

\* the effect on [user], with fetchReadingList up to its await: without a
\* user the spinner is cleared, otherwise the list is requested
fetchReadingList ==
    /\ ~readingList.rendered \/ readingList.user # context.user
    /\ context.user # NoUser => readingList.loads < MaxLoads
    /\ readingList' =
          IF context.user = NoUser
          THEN [readingList EXCEPT !.rendered = TRUE, !.user = context.user,
                                   !.loading = FALSE]
          ELSE [readingList EXCEPT !.rendered = TRUE, !.user = context.user,
                   !.loads = @ + 1,
                   !.pending = Append(@, [kind |-> "fetch", bookId |-> "",
                                          served |-> FALSE, list |-> <<>>])]
    /\ UNCHANGED <<catalog, index, turn, started, widget, context,
                   localStorage, modal, searchBox>>

\* the server handles the i-th request in flight: a delete takes the book
\* off the stored list, a get reads the stored list
serve(i) ==
    /\ i \in 1..Len(readingList.pending)
    /\ ~readingList.pending[i].served
    /\ LET request == readingList.pending[i]
       IN  readingList' =
              IF request.kind = "remove"
              THEN [readingList EXCEPT
                      !.server = Without(@, request.bookId),
                      !.pending[i].served = TRUE]
              ELSE [readingList EXCEPT
                      !.pending[i].served = TRUE,
                      !.pending[i].list = readingList.server]
    /\ UNCHANGED <<catalog, index, turn, started, widget, context,
                   localStorage, modal, searchBox>>

\* fetchReadingList after its await was fulfilled
fetchFulfilled(i) ==
    /\ i \in 1..Len(readingList.pending)
    /\ readingList.pending[i].kind = "fetch"
    /\ readingList.pending[i].served
    /\ readingList' = [readingList EXCEPT
          !.books = readingList.pending[i].list,
          !.loading = FALSE,
          !.pending = RemoveAt(@, i)]
    /\ UNCHANGED <<catalog, index, turn, started, widget, context,
                   localStorage, modal, searchBox>>

\* fetchReadingList after its await was rejected: catch and finally
fetchRejected(i) ==
    /\ i \in 1..Len(readingList.pending)
    /\ readingList.pending[i].kind = "fetch"
    /\ readingList' = [readingList EXCEPT
          !.loading = FALSE,
          !.pending = RemoveAt(@, i)]
    /\ UNCHANGED <<catalog, index, turn, started, widget, context,
                   localStorage, modal, searchBox>>

\* handleRemove that takes the book off the list before the server answers
handleRemove_Optimistic(bookId) ==
    /\ readingList.rendered /\ readingList.user = context.user
    /\ readingList.clicks < MaxClicks
    /\ \E k \in 1..Len(readingList.books) : readingList.books[k] = bookId
    /\ readingList' =
          IF context.user = NoUser
          THEN [readingList EXCEPT !.clicks = @ + 1]
          ELSE [readingList EXCEPT
                  !.clicks = @ + 1,
                  !.books = Without(@, bookId),
                  !.pending = Append(@, [kind |-> "remove", bookId |-> bookId,
                                         served |-> FALSE, list |-> <<>>])]
    /\ UNCHANGED <<catalog, index, turn, started, widget, context,
                   localStorage, modal, searchBox>>

\* handleRemove(bookId) up to its await: without a user it returns at once,
\* otherwise the delete request is sent
handleRemove(bookId) ==
    /\ readingList.rendered /\ readingList.user = context.user
    /\ readingList.clicks < MaxClicks
    /\ \E k \in 1..Len(readingList.books) : readingList.books[k] = bookId
    /\ readingList' =
          IF context.user = NoUser
          THEN [readingList EXCEPT !.clicks = @ + 1]
          ELSE [readingList EXCEPT
                  !.clicks = @ + 1,
                  !.pending = Append(@, [kind |-> "remove", bookId |-> bookId,
                                         served |-> FALSE, list |-> <<>>])]
    /\ UNCHANGED <<catalog, index, turn, started, widget, context,
                   localStorage, modal, searchBox>>

\* handleRemove after its await was fulfilled: the book is filtered out
removeFulfilled(i) ==
    /\ i \in 1..Len(readingList.pending)
    /\ readingList.pending[i].kind = "remove"
    /\ readingList.pending[i].served
    /\ readingList' = [readingList EXCEPT
          !.books = Without(@, readingList.pending[i].bookId),
          !.pending = RemoveAt(@, i)]
    /\ UNCHANGED <<catalog, index, turn, started, widget, context,
                   localStorage, modal, searchBox>>

\* handleRemove after its await was rejected (the request or its response
\* was lost, or the server answered with an error status): catch
removeRejected(i) ==
    /\ i \in 1..Len(readingList.pending)
    /\ readingList.pending[i].kind = "remove"
    /\ readingList' = [readingList EXCEPT !.pending = RemoveAt(@, i)]
    /\ UNCHANGED <<catalog, index, turn, started, widget, context,
                   localStorage, modal, searchBox>>

\* the page is opened in a session whose provider has mounted
ListInit ==
    /\ catalog = SeedCatalog
    /\ index = BuildIndex(SeedCatalog)
    /\ turn = [t \in Turns |-> IdleTurn]
    /\ started = 0
    /\ widget = InitialWidget
    /\ context = [InitialContext EXCEPT !.mounted = TRUE]
    /\ localStorage = [user |-> NoText, personality |-> "friendly",
                       theme |-> "dark"]
    /\ modal = ClosedModal
    /\ searchBox = EmptySearch
    /\ readingList = EmptyList

\* the most requests the page has in flight in one behaviour
MaxPending == MaxClicks + MaxLoads

ListNext ==
    \/ login(Reader)
    \/ logout
    \/ fetchReadingList
    \/ \E i \in 1..MaxPending : serve(i)
    \/ \E i \in 1..MaxPending : fetchFulfilled(i)
    \/ \E i \in 1..MaxPending : fetchRejected(i)
    \/ \E bookId \in {"b1", "b2", "b3"} : handleRemove(bookId)
    \/ \E i \in 1..MaxPending : removeFulfilled(i)
    \/ \E i \in 1..MaxPending : removeRejected(i)

ListSpec == ListInit /\ [][ListNext]_vars

\* C29: a call of handleRemove leaves the displayed list as it is; the list
\* loses a book only when the delete request for that book is fulfilled,
\* after the server has taken the book off its list, and then it loses that
\* book alone, the others keeping their order; when the request is rejected,
\* or no user is logged in, the displayed list is unchanged (and without a
\* user no request is sent).
RemoveAfterDelete ==
    [][ /\ \A bookId \in {"b1", "b2", "b3"} :
               handleRemove(bookId) =>
                   /\ readingList'.books = readingList.books
                   /\ context.user = NoUser =>
                          readingList'.pending = readingList.pending
        /\ \A i \in 1..Len(readingList.pending) :
               removeRejected(i) => readingList'.books = readingList.books
        /\ \A i \in 1..Len(readingList.pending) :
               removeFulfilled(i) =>
                   LET bookId == readingList.pending[i].bookId
                   IN  /\ \A k \in 1..Len(readingList.server) :
                              readingList.server[k] # bookId
                       /\ readingList'.books =
                              SelectSeq(readingList.books,
                                        LAMBDA b : b # bookId)
        /\ ( /\ Len(readingList'.books) < Len(readingList.books)
             /\ \A i \in 1..Len(readingList.pending) : ~fetchFulfilled(i) ) =>
               \E i \in 1..Len(readingList.pending) : removeFulfilled(i) ]_vars

\* a delete was fulfilled: the list shows the other two books, and the
\* server's list has lost the same book
RemoveAfterDeleteWitness ==
    /\ readingList.clicks = 1
    /\ readingList.pending = <<>>
    /\ readingList.books = <<"b1", "b3">>
    /\ readingList.server = <<"b1", "b3">>

====
